---- MODULE Spec2Model ----
(***************************************************************************)
(* A model of obsidian-pebbledash: the file-reference tracker              *)
(* (src/src/fileTracker.ts), the vault it listens to, and the dashboard    *)
(* view's widget lifecycle (src/src/DashboardView).                        *)
(***************************************************************************)
EXTENDS Integers, Sequences, FiniteSets, TLC

\* ------------------------------------------------------------------ bounds
MaxEvents == 2          \* storage events / API calls in one behaviour
MaxProcs == 2           \* async tracker activations in flight at once
MaxModifies == 3        \* 'modify' events in one behaviour
MaxTime == 4            \* the clock stops here
MaxWidgets == 4         \* widget instances created in one behaviour

\* the debounce window of debouncedModifyHandler (500 ms) in clock ticks
DebounceWindow == 2

\* ---------------------------------------------------------------- universe
ContentPaths == {"a", "b", "c"}         \* paths without the dash extension
DashPaths == {"D1", "D2", "D3"}         \* paths with extension DASH_EXTENSION
AllPaths == ContentPaths \cup DashPaths
None == "-"                             \* an absent contentRef
ContentFiles == {1, 2}                  \* TFile objects of non-dashboard files
DashFiles == {1, 2}                     \* TFile objects of dashboards
Callbacks == {"cb1", "cb2"}
TileIdx == {1, 2}
ModifyCallbacks == {"m1", "m2"}
Tiles == {"t1", "t2"}                   \* tile ids of the open view's dashboard

\* file.extension === DASH_EXTENSION
IsDash(path) == path \in DashPaths

\* --------------------------------------------------------- document texts
\* JS values are written as strings; these two are no value at all
Undef == "undefined"                    \* undefined
Null == "null"                          \* a key the YAML gives no value

\* What a document holds besides its version and its tiles' contentRefs:
\* the `settings` key ("absent", a value, or present holding undefined), the
\* tiles' optional keys locked and constraints (likewise), and `other`, the
\* tiles' ids, geometry and remaining meta and any unknown keys.
Rest(other, settings, locked) ==
  [other |-> other, settings |-> settings, locked |-> locked]
NoRest == Rest("-", "absent", "absent")

\* The text of a .dash file: a YAML mapping (its version key, 0 when the key
\* is absent; the contentRef of each of its tiles; and `rest`, everything
\* else the mapping holds), text that loads to a non-object (empty, a
\* scalar), or text js-yaml rejects.
YamlDoc(version, tiles, rest) ==
  [kind |-> "yaml", version |-> version, tiles |-> tiles, rest |-> rest]
YamlText(tiles) == YamlDoc(2, tiles, Rest("r1", "absent", "absent"))
BlankText == [kind |-> "blank", version |-> 0, tiles |-> <<>>, rest |-> NoRest]
BadText == [kind |-> "bad", version |-> 0, tiles |-> <<>>, rest |-> NoRest]

\* createEmptyDashFile: version 2 and one full-size tile with meta
\* {widgetType: 'empty'}
createEmptyDashFile ==
  [ok |-> TRUE, version |-> 2, tiles |-> <<None>>,
   rest |-> Rest("empty", "absent", "absent")]

\* parseDashFile: yaml.load throws on malformed text; a non-object loads to
\* the empty dashboard; a mapping is returned as loaded, with version 2 put
\* in when it has none.
parseDashFile(text) ==
  CASE text.kind = "bad" ->
         [ok |-> FALSE, version |-> 0, tiles |-> <<>>, rest |-> NoRest]
    [] text.kind = "blank" -> createEmptyDashFile
    [] OTHER -> [ok |-> TRUE,
                 version |-> IF text.version = 0 THEN 2 ELSE text.version,
                 tiles |-> text.tiles, rest |-> text.rest]

\* yaml.dump writes no key for a property that holds undefined
Omit(rest) ==
  [rest EXCEPT !.settings = IF @ = Undef THEN "absent" ELSE @,
               !.locked = IF @ = Undef THEN "absent" ELSE @]

\* a variant of serializeDashFile that writes version and tiles only
serializeDashFile_Tiles(dashFile) ==
  YamlDoc(dashFile.version, dashFile.tiles, Rest(dashFile.rest.other, "absent", "absent"))

\* serializeDashFile: yaml.dump of the whole document object
serializeDashFile(dashFile) ==
  YamlDoc(dashFile.version, dashFile.tiles, Omit(dashFile.rest))

\* the truthy contentRef values of a document's tiles
TileRefs(tiles) == {tiles[i] : i \in DOMAIN tiles} \ {None}

\* ------------------------------------------------------ settings cascade
\* JS values are written as strings: "true", "false", "0", "8", "", ...
Nullish(x) == x = Undef \/ x = Null

\* a ?? b, and the variant a || b that also passes over falsy values
Falsy == {Undef, Null, "false", "0", ""}
Coalesce_Or(a, b) == IF a \in Falsy THEN b ELSE a
Coalesce(a, b) == IF Nullish(a) THEN b ELSE a

\* An object is a record of its keys (Undef for an absent key) and `is`:
\* "object", or Undef / Null where there is no object at all.
\* obj?.key is undefined when obj is undefined or null
Get(obj, key) == IF Nullish(obj.is) THEN Undef ELSE obj[key]
\* obj?.key for a key that holds an object
GetObj(obj, key, fields) ==
  IF Nullish(obj.is) THEN [f \in fields \cup {"is"} |-> Undef] ELSE obj[key]

\* the fields of ObsidianTileMeta, DashboardSettings and PebbledashSettings
MetaFields == {"widgetType", "contentRef", "showHeader", "linkBehavior",
               "scrollBehavior", "interactionMode", "background", "padding",
               "seamlessNested", "showEmbedLink"}
BorderFields == {"width", "style", "color"}
AnimationFields == {"enabled", "duration"}
DashboardFields == {"cssclass", "gutter", "border", "animation", "linkBehavior",
                    "showHeaders", "scrollBehavior", "interactionMode",
                    "seamlessNested", "showEmbedLink", "redistributeEqually"}

\* an object with the given keys, the other keys absent; no object
Obj(fields, kv) ==
  [f \in fields \cup {"is"} |->
     IF f = "is" THEN "object" ELSE IF f \in DOMAIN kv THEN kv[f] ELSE Undef]
NoObj(fields) == [f \in fields \cup {"is"} |-> Undef]

\* a tile meta, and the meta a tile without one is given where it is read:
\* tile.meta ?? { widgetType: 'empty' }
Meta(kv) == Obj(MetaFields, kv)
NoMeta == NoObj(MetaFields)
EmptyMeta == Meta([widgetType |-> "empty"])

\* dashboard settings, their border and animation objects
Border(kv) == Obj(BorderFields, kv)
Animation(kv) == Obj(AnimationFields, kv)
Settings(kv) ==
  [f \in DashboardFields \cup {"is"} |->
     IF f = "is" THEN "object"
     ELSE IF f \in DOMAIN kv THEN kv[f]
     ELSE IF f = "border" THEN NoObj(BorderFields)
     ELSE IF f = "animation" THEN NoObj(AnimationFields)
     ELSE Undef]
NoSettings == [Settings(<<>>) EXCEPT !.is = Undef]

\* variants: the tile cascade without the vault layer, and the dashboard
\* cascade taking border and animation as whole objects
resolveEffectiveTileSettings_NoVault(vaultSettings, dashboardSettings, tileMeta) ==
  [showHeader |->
     Coalesce(Get(tileMeta, "showHeader"), Get(dashboardSettings, "showHeaders")),
   linkBehavior |->
     Coalesce(Get(tileMeta, "linkBehavior"), Get(dashboardSettings, "linkBehavior")),
   scrollBehavior |->
     Coalesce(Get(tileMeta, "scrollBehavior"), Get(dashboardSettings, "scrollBehavior")),
   interactionMode |->
     Coalesce(Get(tileMeta, "interactionMode"), Get(dashboardSettings, "interactionMode")),
   seamlessNested |->
     Coalesce(Get(tileMeta, "seamlessNested"), Get(dashboardSettings, "seamlessNested")),
   showEmbedLink |->
     Coalesce(Get(tileMeta, "showEmbedLink"), Get(dashboardSettings, "showEmbedLink")),
   background |-> Get(tileMeta, "background"),
   padding |-> Get(tileMeta, "padding"),
   widgetType |-> Coalesce(Get(tileMeta, "widgetType"), "empty"),
   contentRef |-> Get(tileMeta, "contentRef")]

resolveEffectiveDashboardConfig_Whole(vaultSettings, dashboardSettings) ==
  LET border == GetObj(dashboardSettings, "border", BorderFields)
      animation == GetObj(dashboardSettings, "animation", AnimationFields)
  IN [minTile |-> [width |-> vaultSettings.minTileWidth,
                   height |-> vaultSettings.minTileHeight],
      maxTileWidth |-> vaultSettings.maxTileWidth,
      maxTileHeight |-> vaultSettings.maxTileHeight,
      gutter |-> Coalesce(Get(dashboardSettings, "gutter"), vaultSettings.gutter),
      border |->
        IF Nullish(border.is)
        THEN [width |-> vaultSettings.borderWidth,
              style |-> vaultSettings.borderStyle,
              color |-> vaultSettings.borderColor]
        ELSE [width |-> border.width, style |-> border.style, color |-> border.color],
      animation |->
        IF Nullish(animation.is)
        THEN [enabled |-> vaultSettings.animationEnabled,
              duration |-> vaultSettings.animationDuration]
        ELSE [enabled |-> animation.enabled, duration |-> animation.duration],
      showHeaders |->
        Coalesce(Get(dashboardSettings, "showHeaders"), vaultSettings.showHeaders),
      linkBehavior |->
        Coalesce(Get(dashboardSettings, "linkBehavior"), vaultSettings.linkBehavior),
      scrollBehavior |->
        Coalesce(Get(dashboardSettings, "scrollBehavior"), vaultSettings.scrollBehavior),
      seamlessNested |->
        Coalesce(Get(dashboardSettings, "seamlessNested"), vaultSettings.seamlessNested),
      showEmbedLink |->
        Coalesce(Get(dashboardSettings, "showEmbedLink"), vaultSettings.showEmbedLink),
      redistributeEqually |->
        Coalesce(Get(dashboardSettings, "redistributeEqually"),
                 vaultSettings.redistributeEqually),
      cssclass |-> Get(dashboardSettings, "cssclass")]

\* resolveEffectiveTileSettings(vaultSettings, dashboardSettings, tileMeta)
resolveEffectiveTileSettings(vaultSettings, dashboardSettings, tileMeta) ==
  [showHeader |->
     Coalesce(Get(tileMeta, "showHeader"),
       Coalesce(Get(dashboardSettings, "showHeaders"), vaultSettings.showHeaders)),
   linkBehavior |->
     Coalesce(Get(tileMeta, "linkBehavior"),
       Coalesce(Get(dashboardSettings, "linkBehavior"), vaultSettings.linkBehavior)),
   scrollBehavior |->
     Coalesce(Get(tileMeta, "scrollBehavior"),
       Coalesce(Get(dashboardSettings, "scrollBehavior"), vaultSettings.scrollBehavior)),
   interactionMode |->
     Coalesce(Get(tileMeta, "interactionMode"),
       Coalesce(Get(dashboardSettings, "interactionMode"), vaultSettings.interactionMode)),
   seamlessNested |->
     Coalesce(Get(tileMeta, "seamlessNested"),
       Coalesce(Get(dashboardSettings, "seamlessNested"), vaultSettings.seamlessNested)),
   showEmbedLink |->
     Coalesce(Get(tileMeta, "showEmbedLink"),
       Coalesce(Get(dashboardSettings, "showEmbedLink"), vaultSettings.showEmbedLink)),
   background |-> Get(tileMeta, "background"),
   padding |-> Get(tileMeta, "padding"),
   widgetType |-> Coalesce(Get(tileMeta, "widgetType"), "empty"),
   contentRef |-> Get(tileMeta, "contentRef")]

\* resolveEffectiveDashboardConfig(vaultSettings, dashboardSettings)
resolveEffectiveDashboardConfig(vaultSettings, dashboardSettings) ==
  LET border == GetObj(dashboardSettings, "border", BorderFields)
      animation == GetObj(dashboardSettings, "animation", AnimationFields)
  IN [minTile |-> [width |-> vaultSettings.minTileWidth,
                   height |-> vaultSettings.minTileHeight],
      maxTileWidth |-> vaultSettings.maxTileWidth,
      maxTileHeight |-> vaultSettings.maxTileHeight,
      gutter |-> Coalesce(Get(dashboardSettings, "gutter"), vaultSettings.gutter),
      border |->
        [width |-> Coalesce(Get(border, "width"), vaultSettings.borderWidth),
         style |-> Coalesce(Get(border, "style"), vaultSettings.borderStyle),
         color |-> Coalesce(Get(border, "color"), vaultSettings.borderColor)],
      animation |->
        [enabled |-> Coalesce(Get(animation, "enabled"), vaultSettings.animationEnabled),
         duration |-> Coalesce(Get(animation, "duration"), vaultSettings.animationDuration)],
      showHeaders |->
        Coalesce(Get(dashboardSettings, "showHeaders"), vaultSettings.showHeaders),
      linkBehavior |->
        Coalesce(Get(dashboardSettings, "linkBehavior"), vaultSettings.linkBehavior),
      scrollBehavior |->
        Coalesce(Get(dashboardSettings, "scrollBehavior"), vaultSettings.scrollBehavior),
      seamlessNested |->
        Coalesce(Get(dashboardSettings, "seamlessNested"), vaultSettings.seamlessNested),
      showEmbedLink |->
        Coalesce(Get(dashboardSettings, "showEmbedLink"), vaultSettings.showEmbedLink),
      redistributeEqually |->
        Coalesce(Get(dashboardSettings, "redistributeEqually"),
                 vaultSettings.redistributeEqually),
      cssclass |-> Get(dashboardSettings, "cssclass")]

\* the layers the cascade is resolved on --------------------------------
\* the keys that cascade from the vault through the dashboard to the tile,
\* and the dashboard's name for a tile's key
TileCascade == {"showHeader", "linkBehavior", "scrollBehavior", "interactionMode",
                "seamlessNested", "showEmbedLink"}
DocKey(f) == IF f = "showHeader" THEN "showHeaders" ELSE f
\* the dashboard's plain keys that cascade from the vault
DocCascade == {DocKey(f) : f \in TileCascade} \cup {"redistributeEqually"}
IsBool(f) == f \in {"showHeader", "showHeaders", "seamlessNested", "showEmbedLink",
                    "redistributeEqually", "enabled"}
IsNumber(f) == f \in {"gutter", "width", "duration"}
\* a value for key f: falsy (false, 0, ''), or one naming the layer it is in
Val(layer, f, kind) ==
  IF kind = "falsy"
  THEN (IF IsBool(f) THEN "false" ELSE IF IsNumber(f) THEN "0" ELSE "")
  ELSE (IF IsBool(f) THEN "true" ELSE layer)
Kinds == {"falsy", "truthy"}

\* PebbledashSettings: always complete
Vault(kind) ==
  [minTileWidth |-> "10", minTileHeight |-> "10",
   maxTileWidth |-> "100", maxTileHeight |-> "100",
   gutter |-> Val("vault", "gutter", kind),
   borderWidth |-> Val("vault", "width", kind),
   borderStyle |-> Val("vault", "style", kind),
   borderColor |-> Val("vault", "color", kind),
   showHeaders |-> Val("vault", "showHeaders", kind),
   scrollBehavior |-> Val("vault", "scrollBehavior", kind),
   linkBehavior |-> Val("vault", "linkBehavior", kind),
   interactionMode |-> Val("vault", "interactionMode", kind),
   animationEnabled |-> Val("vault", "enabled", kind),
   animationDuration |-> Val("vault", "duration", kind),
   seamlessNested |-> Val("vault", "seamlessNested", kind),
   showEmbedLink |-> Val("vault", "showEmbedLink", kind),
   redistributeEqually |-> Val("vault", "redistributeEqually", kind)]
Vaults == {Vault(k) : k \in Kinds}

\* tile metas: none; any set of cascading keys present, all falsy or all
\* truthy; all null; the tile-only keys present
TileLayer(S, kind) ==
  [f \in MetaFields \cup {"is"} |->
     IF f = "is" THEN "object" ELSE IF f \in S THEN Val("tile", f, kind) ELSE Undef]
TileLayers ==
  {NoMeta}
  \cup {TileLayer(S, k) : S \in SUBSET TileCascade, k \in Kinds}
  \cup {[f \in MetaFields \cup {"is"} |-> IF f = "is" THEN "object" ELSE Null]}
  \cup {Meta([widgetType |-> "embedded", contentRef |-> "a",
              background |-> "", padding |-> "4px"])}

\* dashboard settings: none; one plain key, all of them or all but one
\* present, all falsy or all truthy
DocLayer(S, kind) ==
  [Settings(<<>>) EXCEPT
     !.showHeaders = IF "showHeaders" \in S THEN Val("dashboard", "showHeaders", kind) ELSE Undef,
     !.linkBehavior = IF "linkBehavior" \in S THEN Val("dashboard", "linkBehavior", kind) ELSE Undef,
     !.scrollBehavior = IF "scrollBehavior" \in S THEN Val("dashboard", "scrollBehavior", kind) ELSE Undef,
     !.interactionMode = IF "interactionMode" \in S THEN Val("dashboard", "interactionMode", kind) ELSE Undef,
     !.seamlessNested = IF "seamlessNested" \in S THEN Val("dashboard", "seamlessNested", kind) ELSE Undef,
     !.showEmbedLink = IF "showEmbedLink" \in S THEN Val("dashboard", "showEmbedLink", kind) ELSE Undef,
     !.redistributeEqually = IF "redistributeEqually" \in S THEN Val("dashboard", "redistributeEqually", kind) ELSE Undef]
DocLayers ==
  {NoSettings}
  \cup {DocLayer(S, k) :
          S \in {T \in SUBSET DocCascade :
                   Cardinality(T) <= 1 \/ Cardinality(T) >= Cardinality(DocCascade) - 1},
          k \in Kinds}

\* dashboard settings with gutter, cssclass and the composite keys: border
\* and animation absent, null, or objects with any set of their keys
SubLayer(fields, S, kind) ==
  [f \in fields \cup {"is"} |->
     IF f = "is" THEN "object" ELSE IF f \in S THEN Val("dashboard", f, kind) ELSE Undef]
SubLayers(fields) ==
  {NoObj(fields), [NoObj(fields) EXCEPT !.is = Null]}
  \cup {SubLayer(fields, S, k) : S \in SUBSET fields, k \in Kinds}
CompositeLayers ==
  {[Settings(<<>>) EXCEPT !.gutter = gv, !.cssclass = cv, !.border = b, !.animation = a] :
     gv \in {Undef, "0", "8"}, cv \in {Undef, "wide"},
     b \in SubLayers(BorderFields), a \in SubLayers(AnimationFields)}

\* ------------------------------------------------- insertion-ordered sets
\* A JS Set iterates in insertion order: a sequence without repetition.
Has(s, d) == \E i \in DOMAIN s : s[i] = d
SetAdd(s, d) == IF Has(s, d) THEN s ELSE Append(s, d)
SetDel(s, d) == SelectSeq(s, LAMBDA x : x # d)
Elems(s) == {s[i] : i \in DOMAIN s}

VARIABLES
  tracker,          \* "new" | "started" | "stopped": FileTracker.eventRefs
  cfile,            \* [ContentFiles -> [path, exists]]: the vault's other files
  dfile,            \* [DashFiles -> [path, exists, text]]: the vault's dashboards
  index,            \* FileTracker.index: contentRef -> ordered set of dashboard paths
  changeCallbacks,  \* FileTracker.changeCallbacks
  procs,            \* suspended async activations of the tracker
  layoutReady,      \* the plugin's onLayoutReady callback has run
  last,             \* what the last step did (history)
  budget            \* events left

trackerVars == <<tracker, cfile, dfile, index, changeCallbacks, procs, layoutReady, last, budget>>

VARIABLES
  now,              \* the clock, in ticks
  windowEnd,        \* debouncedModifyHandler: its window is open until then
  modifyCallbacks,  \* FileTracker.modifyCallbacks
  modEvents,        \* the 'modify' events delivered so far (history)
  modCalls          \* the modify callbacks invoked so far (history)

modifyVars == <<now, windowEnd, modifyCallbacks, modEvents, modCalls>>

VARIABLES
  dashFile,         \* DashboardView.dashFile: [loaded, tiles, meta, settings]
  dashboard,        \* DashboardView.dashboard is not null
  bridges,          \* layout engine: tile -> the widget of its mounted bridge, or 0
  activeWidgets,    \* DashboardView.activeWidgets: tile -> widget, or 0
  widgets,          \* every widget instance created: [tile, mounted, meta,
                    \* effectiveSettings, updates, fresh]
  skipNextRefresh,  \* DashboardView.skipNextRefresh
  modelUnsubscribe, \* DashboardView.modelUnsubscribe is not null
  subscriptions,    \* the model subscriptions made and not yet unsubscribed
  mounting,         \* initializeDashboard activations awaiting dashboard.mount()
  bridgeCtx,        \* widgetBridgeCtx: the dashFile object the bridges read
  stored,           \* the document the view's file holds
  viewLast          \* what the last step of the view did (history)

viewVars == <<dashFile, dashboard, bridges, activeWidgets, widgets, skipNextRefresh,
              modelUnsubscribe, subscriptions, mounting, bridgeCtx, stored, viewLast>>

VARIABLES
  call              \* a pure function applied to arguments: its name, the
                    \* arguments and, once it has returned, the result

pureVars == <<call>>

VARIABLES
  externalWidgets,  \* PebbledashPlugin.externalWidgets: widget type -> factory
  widgetRegistry    \* DashboardView.widgetRegistry: widget type -> factory

registryVars == <<externalWidgets, widgetRegistry>>

VARIABLES
  currentEmbedDepth, \* dashEmbed.ts: the module's currentEmbedDepth
  embeds,            \* every DashEmbedComponent created: [depth, level, pc,
                     \* pending]; level is the nesting depth it really is at
                     \* (history)
  leaf               \* an embedded widget instance (createEmbeddedLeafWidget)

embedVars == <<currentEmbedDepth, embeds, leaf>>

VARIABLES
  mode,                  \* DashboardView.mode: "view" | "edit"
  originalDashFileData,  \* DashboardView.originalDashFileData: a text
  sessionStart           \* the document the view held when edit mode was
                         \* entered (history)

sessionVars == <<mode, originalDashFileData, sessionStart>>

vars == <<trackerVars, modifyVars, viewVars, pureVars, registryVars, embedVars, sessionVars>>

\* no function has been applied
NoCall == [fn |-> "none"]

\* The workspace is up: the plugin has loaded (the tracker constructed and
\* started) and its onLayoutReady callback has begun the first scan.
Listening == tracker # "new" /\ layoutReady

\* ------------------------------------------------------------- the vault
\* vault.getAbstractFileByPath(path) for a dashboard path: the TFile or 0
DashAt(path) ==
  IF \E g \in DashFiles : dfile[g].exists /\ dfile[g].path = path
  THEN CHOOSE g \in DashFiles : dfile[g].exists /\ dfile[g].path = path
  ELSE 0

PathTaken(path) ==
  \/ \E g \in DashFiles : dfile[g].exists /\ dfile[g].path = path
  \/ \E f \in ContentFiles : cfile[f].exists /\ cfile[f].path = path

\* the references a dashboard's stored content holds
StoredRefs(g) ==
  LET d == parseDashFile(dfile[g].text)
  IN IF dfile[g].exists /\ d.ok THEN TileRefs(d.tiles) ELSE {}

\* --------------------------------------------------------------- index ops
\* FileTracker.getDashboardsReferencing
getDashboardsReferencing(idx, filePath) ==
  IF filePath \in DOMAIN idx THEN Elems(idx[filePath]) ELSE {}

\* a slip: the entry is replaced by the new dashboard instead of joined by it
addReference_Overwrite(idx, filePath, dashboardPath) ==
  [k \in DOMAIN idx \cup {filePath} |->
     IF k = filePath THEN <<dashboardPath>> ELSE idx[k]]

\* FileTracker.addReference
addReference(idx, filePath, dashboardPath) ==
  IF filePath \in DOMAIN idx
  THEN [idx EXCEPT ![filePath] = SetAdd(@, dashboardPath)]
  ELSE [k \in DOMAIN idx \cup {filePath} |->
          IF k = filePath THEN <<dashboardPath>> ELSE idx[k]]

RECURSIVE addReferences(_, _, _)
addReferences(idx, filePaths, dashboardPath) ==
  IF filePaths = <<>> THEN idx
  ELSE addReferences(
         IF Head(filePaths) # None
         THEN addReference(idx, Head(filePaths), dashboardPath) ELSE idx,
         Tail(filePaths), dashboardPath)

RECURSIVE addDashboards(_, _, _)
addDashboards(idx, filePath, dashboardPaths) ==
  IF dashboardPaths = <<>> THEN idx
  ELSE addDashboards(addReference(idx, filePath, Head(dashboardPaths)),
                     filePath, Tail(dashboardPaths))

\* index.delete(key)
indexDelete(idx, key) == [k \in DOMAIN idx \ {key} |-> idx[k]]

\* a slip: the emptied entries are left in the map
clearDashboardFromIndex_NoCleanup(idx, dashboardPath) ==
  [k \in DOMAIN idx |-> SetDel(idx[k], dashboardPath)]

\* a slip: every entry the dashboard is in is dropped whole
clearDashboardFromIndex_DropEntries(idx, dashboardPath) ==
  [k \in {x \in DOMAIN idx : ~Has(idx[x], dashboardPath)} |-> idx[k]]

\* FileTracker.clearDashboardFromIndex
clearDashboardFromIndex(idx, dashboardPath) ==
  LET removed == [k \in DOMAIN idx |-> SetDel(idx[k], dashboardPath)]
  IN [k \in {x \in DOMAIN removed : removed[x] # <<>>} |-> removed[k]]

\* a slip: the old path is taken out and the new one never put in
updateDashboardPath_DeleteOnly(idx, oldPath, newPath) ==
  [k \in DOMAIN idx |-> SetDel(idx[k], oldPath)]

\* FileTracker.updateDashboardPath
updateDashboardPath(idx, oldPath, newPath) ==
  [k \in DOMAIN idx |->
     IF Has(idx[k], oldPath) THEN SetAdd(SetDel(idx[k], oldPath), newPath)
     ELSE idx[k]]

EmptyIndex == [k \in {} |-> <<>>]

\* ------------------------------------------------------- async activations
\* One record per suspended activation of handleRename ("rename") or of
\* indexDashboard / indexAllDashboards ("index").
NoProc ==
  [kind |-> "none", pc |-> "-", file |-> 0, oldPath |-> None, newPath |-> None,
   attached |-> FALSE, localRefs |-> <<>>, seen |-> {}, cur |-> None,
   dfile |-> 0, newText |-> BlankText, queue |-> <<>>, all |-> FALSE,
   alone |-> TRUE, failed |-> FALSE, failedDocs |-> {}, preIdx |-> {},
   preDisk |-> {}, calls |-> <<>>, again |-> FALSE]

Slots == 1..MaxProcs
FreeSlots == {s \in Slots : procs[s].kind = "none"}
FreeSlot == CHOOSE s \in FreeSlots : \A t \in FreeSlots : s <= t

\* another step ran while the activation was suspended
Disturb(ps, except) ==
  [s \in Slots |-> IF s # except /\ ps[s].kind # "none"
                   THEN [ps[s] EXCEPT !.alone = FALSE] ELSE ps[s]]

\* index.delete(key) / index.clear(): a handler iterating the removed Set
\* object keeps the object, now out of the map
DetachKeys(ps, idx, keys) ==
  [s \in Slots |->
     IF ps[s].kind = "rename" /\ ps[s].attached /\ ps[s].oldPath \in keys
     THEN [ps[s] EXCEPT !.attached = FALSE, !.localRefs = idx[ps[s].oldPath]]
     ELSE ps[s]]

\* clearDashboardFromIndex seen from a handler iterating one of the Sets
DetachCleared(ps, idx, dashboardPath) ==
  LET after == clearDashboardFromIndex(idx, dashboardPath)
  IN [s \in Slots |->
        IF ps[s].kind = "rename" /\ ps[s].attached
        THEN IF ps[s].oldPath \in DOMAIN after
             THEN [ps[s] EXCEPT !.seen = @ \ {dashboardPath}]
             ELSE [ps[s] EXCEPT !.attached = FALSE, !.localRefs = <<>>]
        ELSE ps[s]]

\* updateDashboardPath seen from a handler iterating one of the Sets
DetachRelabelled(ps, idx, oldPath) ==
  [s \in Slots |->
     IF ps[s].kind = "rename" /\ ps[s].attached
        /\ Has(idx[ps[s].oldPath], oldPath)
     THEN [ps[s] EXCEPT !.seen = @ \ {oldPath}]
     ELSE ps[s]]

\* the Set a rename handler iterates (referencingDashboards)
CurRefs(p, idx) == IF p.attached THEN idx[p.oldPath] ELSE p.localRefs

CbOrder == <<"cb1", "cb2">>
\* a slip: the callbacks are called whether or not they are still registered
CallsFor_All(d, oldPath, newPath) ==
  [i \in DOMAIN CbOrder |-> <<CbOrder[i], d, oldPath, newPath>>]

\* for (const callback of this.changeCallbacks) callback(d, oldPath, newPath)
CallsFor(d, oldPath, newPath) ==
  LET cbs == SelectSeq(CbOrder, LAMBDA c : c \in changeCallbacks)
  IN [i \in DOMAIN cbs |-> <<cbs[i], d, oldPath, newPath>>]

RECURSIVE CallsForAll(_, _, _)
CallsForAll(ds, oldPath, newPath) ==
  IF ds = <<>> THEN <<>>
  ELSE CallsFor(Head(ds), oldPath, newPath)
         \o CallsForAll(Tail(ds), oldPath, newPath)

\* what the last step was: the operation, the activation that took it (its
\* arguments, what it recorded when it began, the dashboards whose write
\* failed, every change callback it has invoked, and whether it is an
\* indexDashboard that directly follows one of the same file), the callbacks
\* invoked in this step and the dashboard written in it (0: none)
Last(op, p, calls, wrote) ==
  [op |-> op,
   p |-> [kind |-> p.kind, oldPath |-> p.oldPath, newPath |-> p.newPath,
          dfile |-> p.dfile, all |-> p.all, alone |-> p.alone,
          failed |-> p.failed, failedDocs |-> p.failedDocs,
          preIdx |-> p.preIdx, preDisk |-> p.preDisk, total |-> p.calls,
          again |-> p.again],
   calls |-> calls, wrote |-> wrote]

\* ------------------------------------------------------------ handleRename
\* a slip: the loop stops at the first tile it replaces
RewriteTiles_First(tiles, oldFilePath, newFilePath) ==
  [i \in DOMAIN tiles |->
     IF tiles[i] = oldFilePath /\ \A j \in 1..(i - 1) : tiles[j] # oldFilePath
     THEN newFilePath ELSE tiles[i]]

\* updateDashboardReferences up to its write: the tiles with every
\* contentRef === oldFilePath replaced
RewriteTiles(tiles, oldFilePath, newFilePath) ==
  [i \in DOMAIN tiles |-> IF tiles[i] = oldFilePath THEN newFilePath ELSE tiles[i]]

\* updateDashboardReferences: `modified`, set when some tile's contentRef
\* === oldFilePath
Modified(tiles, oldFilePath) == \E i \in DOMAIN tiles : tiles[i] = oldFilePath

\* The for-loop of handleRename from the top of an iteration to its next
\* suspension: dashboards whose path resolves to no file are passed over
\* (their callbacks still run); the first one that resolves is read.
\* Returns the handler's record, with pc "read" or, past the last entry, "end".
RenameAdvance(p, idx) ==
  LET refs == CurRefs(p, idx)
      rest == SelectSeq(refs, LAMBDA d : d \notin p.seen)
      hits == {i \in DOMAIN rest : DashAt(rest[i]) # 0}
      k == IF hits = {} THEN Len(rest) + 1
           ELSE CHOOSE i \in hits : \A j \in hits : i <= j
      passed == SubSeq(rest, 1, k - 1)
      calls == p.calls \o CallsForAll(passed, p.oldPath, cfile'[p.file].path)
  IN IF k <= Len(rest)
     THEN [p EXCEPT !.pc = "read", !.cur = rest[k], !.dfile = DashAt(rest[k]),
                    !.newPath = cfile'[p.file].path,
                    !.seen = @ \cup Elems(SubSeq(rest, 1, k)), !.calls = calls]
     ELSE [p EXCEPT !.pc = "end", !.seen = @ \cup Elems(rest), !.calls = calls]

\* a slip: past the loop only the dashboards whose write went through are
\* added under the new path
RenameContinue_Checked(slot, p, ps, wrote) ==
  LET q == RenameAdvance(p, index)
      fresh == SubSeq(q.calls, Len(p.calls) + 1, Len(q.calls))
      written == SelectSeq(CurRefs(p, index),
                   LAMBDA d : \A g \in p.failedDocs : dfile[g].path # d)
  IN IF q.pc = "read"
     THEN /\ procs' = [ps EXCEPT ![slot] = q]
          /\ index' = index
          /\ last' = Last("renameStep", q, fresh, wrote)
     ELSE /\ procs' = [DetachKeys(ps, index, {p.oldPath} \cap DOMAIN index)
                         EXCEPT ![slot] = NoProc]
          /\ index' = addDashboards(indexDelete(index, p.oldPath),
                                    cfile'[p.file].path, written)
          /\ last' = Last("renameDone", q, fresh, wrote)

\* The state after the handler in `slot` ran from the top of an iteration:
\* suspended at a read, or past the loop, where the index is updated
\* (index.delete(oldPath), then addReference(file.path, d) for each entry).
RenameContinue(slot, p, ps, wrote) ==
  LET q == RenameAdvance(p, index)
      fresh == SubSeq(q.calls, Len(p.calls) + 1, Len(q.calls))
  IN IF q.pc = "read"
     THEN /\ procs' = [ps EXCEPT ![slot] = q]
          /\ index' = index
          /\ last' = Last("renameStep", q, fresh, wrote)
     ELSE /\ procs' = [DetachKeys(ps, index, {p.oldPath} \cap DOMAIN index)
                         EXCEPT ![slot] = NoProc]
          /\ index' = addDashboards(indexDelete(index, p.oldPath),
                                    cfile'[p.file].path, CurRefs(p, index))
          /\ last' = Last("renameDone", q, fresh, wrote)

\* the dashboards whose stored content references `path`
DiskReferrers(path) == {g \in DashFiles : path \in StoredRefs(g)}

\* A file that is not a dashboard is renamed; handleRename runs to its first
\* suspension.
RenameContent(f, newPath) ==
  LET oldPath == cfile[f].path
      p0 == [NoProc EXCEPT !.kind = "rename", !.file = f, !.oldPath = oldPath,
                           !.newPath = newPath, !.attached = TRUE,
                           !.preIdx = getDashboardsReferencing(index, oldPath),
                           !.preDisk = DiskReferrers(oldPath)]
      ps == Disturb(procs, 0)
  IN /\ Listening
     /\ budget > 0
     /\ cfile[f].exists
     /\ newPath # oldPath
     /\ ~PathTaken(newPath)
     /\ budget' = budget - 1
     /\ cfile' = [cfile EXCEPT ![f].path = newPath]
     /\ UNCHANGED <<modifyVars, viewVars, pureVars, registryVars, embedVars, sessionVars, tracker, dfile, changeCallbacks, layoutReady>>
     /\ IF tracker # "started"
        THEN /\ index' = index
             /\ procs' = ps
             /\ last' = Last("env", NoProc, <<>>, 0)
        ELSE IF oldPath \notin DOMAIN index \/ index[oldPath] = <<>>
        THEN /\ index' = index
             /\ procs' = ps
             /\ last' = Last("renameDone", [p0 EXCEPT !.attached = FALSE], <<>>, 0)
        ELSE /\ FreeSlots # {}
             /\ RenameContinue(FreeSlot, p0, ps, 0)

\* vault.read of the dashboard being rewritten resolves
RenameReadDone(slot) ==
  LET p == procs[slot]
      g == p.dfile
      d == parseDashFile(dfile[g].text)
      ps == Disturb(procs, slot)
      readable == dfile[g].exists /\ d.ok
      modified == readable /\ Modified(d.tiles, p.oldPath)
      after == [p EXCEPT !.calls = @ \o CallsFor(p.cur, p.oldPath, cfile[p.file].path)]
  IN /\ p.kind = "rename" /\ p.pc = "read"
     /\ UNCHANGED <<modifyVars, viewVars, pureVars, registryVars, embedVars, sessionVars, tracker, cfile, dfile, changeCallbacks, layoutReady, budget>>
     /\ IF modified
        THEN /\ procs' = [ps EXCEPT ![slot] =
                  [p EXCEPT !.pc = "write",
                            !.newText = serializeDashFile(
                               [d EXCEPT !.tiles = RewriteTiles(
                                  d.tiles, p.oldPath, p.newPath)])]]
             /\ index' = index
             /\ last' = Last("renameStep", p, <<>>, 0)
        ELSE RenameContinue(slot, after, ps, 0)

\* a slip: a rejected vault.modify is not caught and ends handleRename
RenameWriteDone_Abort(slot, ok) ==
  LET p == procs[slot]
      g == p.dfile
      ps == Disturb(procs, slot)
      after == [p EXCEPT !.calls = @ \o CallsFor(p.cur, p.oldPath, cfile[p.file].path)]
      thrown == [p EXCEPT !.failed = TRUE, !.failedDocs = @ \cup {g}]
  IN /\ p.kind = "rename" /\ p.pc = "write"
     /\ ok => dfile[g].exists
     /\ dfile' = IF ok THEN [dfile EXCEPT ![g].text = p.newText] ELSE dfile
     /\ UNCHANGED <<modifyVars, viewVars, pureVars, registryVars, embedVars, sessionVars, tracker, cfile, changeCallbacks, layoutReady, budget>>
     /\ IF ok
        THEN RenameContinue(slot, after, ps, g)
        ELSE /\ procs' = [ps EXCEPT ![slot] = NoProc]
             /\ index' = index
             /\ last' = Last("renameDone", thrown, <<>>, 0)

\* vault.modify of the rewritten dashboard resolves (ok) or rejects; the
\* rejection is caught and logged by updateDashboardReferences
RenameWriteDone(slot, ok) ==
  LET p == procs[slot]
      g == p.dfile
      ps == Disturb(procs, slot)
      after == [p EXCEPT !.calls = @ \o CallsFor(p.cur, p.oldPath, cfile[p.file].path),
                         !.failed = @ \/ ~ok,
                         !.failedDocs = IF ok THEN @ ELSE @ \cup {g}]
  IN /\ p.kind = "rename" /\ p.pc = "write"
     /\ ok => dfile[g].exists
     /\ dfile' = IF ok THEN [dfile EXCEPT ![g].text = p.newText] ELSE dfile
     /\ UNCHANGED <<modifyVars, viewVars, pureVars, registryVars, embedVars, sessionVars, tracker, cfile, changeCallbacks, layoutReady, budget>>
     /\ RenameContinue(slot, after, ps, IF ok THEN g ELSE 0)

\* A dashboard is renamed: handleRename relabels it in the index and returns.
RenameDash(g, newPath) ==
  LET oldPath == dfile[g].path
      p0 == [NoProc EXCEPT !.kind = "rename", !.oldPath = oldPath,
                           !.newPath = newPath,
                           !.preIdx = getDashboardsReferencing(index, oldPath),
                           !.preDisk = DiskReferrers(oldPath) \ {g}]
      ps == Disturb(procs, 0)
  IN /\ Listening
     /\ budget > 0
     /\ dfile[g].exists
     /\ newPath # oldPath
     /\ ~PathTaken(newPath)
     /\ budget' = budget - 1
     /\ dfile' = [dfile EXCEPT ![g].path = newPath]
     /\ UNCHANGED <<modifyVars, viewVars, pureVars, registryVars, embedVars, sessionVars, tracker, cfile, changeCallbacks, layoutReady>>
     /\ IF tracker # "started"
        THEN /\ index' = index
             /\ procs' = ps
             /\ last' = Last("env", NoProc, <<>>, 0)
        ELSE /\ index' = updateDashboardPath(index, oldPath, newPath)
             /\ procs' = DetachRelabelled(ps, index, oldPath)
             /\ last' = Last("renameDone", p0, <<>>, 0)

\* ------------------------------------------------------------ handleDelete
DeleteContent(f) ==
  LET path == cfile[f].path
      refs == IF path \in DOMAIN index THEN index[path] ELSE <<>>
      calls == CallsForAll(refs, path, None)
      p0 == [NoProc EXCEPT !.kind = "delete", !.oldPath = path,
                           !.preIdx = Elems(refs),
                           !.preDisk = DiskReferrers(path), !.calls = calls]
      ps == Disturb(procs, 0)
  IN /\ Listening
     /\ budget > 0
     /\ cfile[f].exists
     /\ budget' = budget - 1
     /\ cfile' = [cfile EXCEPT ![f].exists = FALSE]
     /\ UNCHANGED <<modifyVars, viewVars, pureVars, registryVars, embedVars, sessionVars, tracker, dfile, changeCallbacks, layoutReady>>
     /\ IF tracker # "started"
        THEN /\ index' = index
             /\ procs' = ps
             /\ last' = Last("env", NoProc, <<>>, 0)
        ELSE IF refs = <<>>
        THEN /\ index' = index
             /\ procs' = ps
             /\ last' = Last("deleteDone", p0, <<>>, 0)
        ELSE /\ index' = indexDelete(index, path)
             /\ procs' = DetachKeys(ps, index, {path})
             /\ last' = Last("deleteDone", p0, calls, 0)

\* handleDelete when the first change callback it calls throws: the
\* exception leaves the loop and handleDelete, before index.delete
DeleteContentThrows(f) ==
  LET path == cfile[f].path
      refs == IF path \in DOMAIN index THEN index[path] ELSE <<>>
      calls == CallsForAll(refs, path, None)
      made == SubSeq(calls, 1, 1)
      p0 == [NoProc EXCEPT !.kind = "delete", !.oldPath = path,
                           !.preIdx = Elems(refs),
                           !.preDisk = DiskReferrers(path), !.calls = made]
  IN /\ Listening
     /\ tracker = "started"
     /\ budget > 0
     /\ cfile[f].exists
     /\ calls # <<>>
     /\ budget' = budget - 1
     /\ cfile' = [cfile EXCEPT ![f].exists = FALSE]
     /\ index' = index
     /\ procs' = Disturb(procs, 0)
     /\ last' = Last("deleteThrew", p0, made, 0)
     /\ UNCHANGED <<modifyVars, viewVars, pureVars, registryVars, embedVars, sessionVars, tracker, dfile, changeCallbacks, layoutReady>>

DeleteDash(g) ==
  LET path == dfile[g].path
      p0 == [NoProc EXCEPT !.kind = "delete", !.oldPath = path,
                           !.preIdx = getDashboardsReferencing(index, path),
                           !.preDisk = DiskReferrers(path) \ {g}]
      ps == Disturb(procs, 0)
  IN /\ Listening
     /\ budget > 0
     /\ dfile[g].exists
     /\ budget' = budget - 1
     /\ dfile' = [dfile EXCEPT ![g].exists = FALSE]
     /\ UNCHANGED <<modifyVars, viewVars, pureVars, registryVars, embedVars, sessionVars, tracker, cfile, changeCallbacks, layoutReady>>
     /\ IF tracker # "started"
        THEN /\ index' = index
             /\ procs' = ps
             /\ last' = Last("env", NoProc, <<>>, 0)
        ELSE /\ index' = clearDashboardFromIndex(index, path)
             /\ procs' = DetachCleared(ps, index, path)
             /\ last' = Last("deleteDone", p0, <<>>, 0)

\* --------------------------------------------------------------- indexing
\* a variant on an index that keeps arrays: nothing is cleared first and
\* the dashboard is appended once per referencing tile
IndexOne_Append(idx, g) ==
  LET d == parseDashFile(dfile[g].text)
      refs == SelectSeq(d.tiles, LAMBDA r : r # None)
  IN IF dfile[g].exists /\ d.ok
     THEN [k \in DOMAIN idx \cup TileRefs(d.tiles) |->
             (IF k \in DOMAIN idx THEN idx[k] ELSE <<>>)
             \o [i \in 1..Len(SelectSeq(refs, LAMBDA r : r = k)) |->
                   dfile[g].path]]
     ELSE idx

\* indexDashboard after its read: on a readable, parsable document the
\* dashboard's entries are cleared and its tiles' contentRefs added; a read
\* or parse error is caught and leaves the index as it was.
IndexOne(idx, g) ==
  LET d == parseDashFile(dfile[g].text)
  IN IF dfile[g].exists /\ d.ok
     THEN addReferences(clearDashboardFromIndex(idx, dfile[g].path),
                        d.tiles, dfile[g].path)
     ELSE idx

IndexOneProcs(ps, idx, g) ==
  IF dfile[g].exists /\ parseDashFile(dfile[g].text).ok
  THEN DetachCleared(ps, idx, dfile[g].path) ELSE ps

\* indexDashboard(file) is called: it suspends at vault.read
IndexDashboardCall(g) ==
  /\ Listening
  /\ budget > 0
  /\ dfile[g].exists
  /\ FreeSlots # {}
  /\ budget' = budget - 1
  /\ procs' = [Disturb(procs, 0) EXCEPT ![FreeSlot] =
       [NoProc EXCEPT !.kind = "index", !.pc = "read", !.queue = <<g>>,
                      !.dfile = g]]
  /\ last' = Last("env", NoProc, <<>>, 0)
  /\ UNCHANGED <<modifyVars, viewVars, pureVars, registryVars, embedVars, sessionVars, tracker, cfile, dfile, index, changeCallbacks, layoutReady>>

\* The plugin's onLayoutReady callback calls indexAllDashboards(): the index
\* is cleared, the dashboards listed (vault.getFiles, which lists the files
\* in the vault's own order) and the first one read
IndexAllCall ==
  LET order == SelectSeq(<<1, 2>>, LAMBDA g : dfile[g].exists)
      p0 == [NoProc EXCEPT !.kind = "index", !.pc = "read", !.queue = order,
                           !.all = TRUE]
      ps == DetachKeys(Disturb(procs, 0), index, DOMAIN index)
  IN /\ tracker # "new"
     /\ ~layoutReady
     /\ FreeSlots # {}
     /\ layoutReady' = TRUE
     /\ index' = EmptyIndex
     /\ IF order = <<>>
        THEN /\ procs' = ps
             /\ last' = Last("indexAllDone", p0, <<>>, 0)
        ELSE /\ procs' = [ps EXCEPT ![FreeSlot] = [p0 EXCEPT !.dfile = Head(order)]]
             /\ last' = Last("env", NoProc, <<>>, 0)
     /\ UNCHANGED <<modifyVars, viewVars, pureVars, registryVars, embedVars, sessionVars, tracker, cfile, dfile, changeCallbacks, budget>>

\* the read of indexDashboard resolves; indexAllDashboards goes on to the
\* next dashboard
IndexReadDone(slot) ==
  LET p == procs[slot]
      g == Head(p.queue)
      ps == IndexOneProcs(Disturb(procs, slot), index, g)
      rest == Tail(p.queue)
  IN /\ p.kind = "index" /\ p.pc = "read"
     /\ index' = IndexOne(index, g)
     /\ IF rest = <<>>
        THEN /\ procs' = [ps EXCEPT ![slot] = NoProc]
             /\ last' = Last(IF p.all THEN "indexAllDone" ELSE "indexDone",
                             [p EXCEPT !.again = ~p.all /\ last.op = "indexDone"
                                                 /\ last.p.dfile = g],
                             <<>>, 0)
        ELSE /\ procs' = [ps EXCEPT ![slot] =
                            [p EXCEPT !.queue = rest, !.dfile = Head(rest)]]
             /\ last' = Last("indexStep", p, <<>>, 0)
     /\ UNCHANGED <<modifyVars, viewVars, pureVars, registryVars, embedVars, sessionVars, tracker, cfile, dfile, changeCallbacks, layoutReady, budget>>

\* FileTracker.removeDashboard
RemoveDashboardCall(dashboardPath) ==
  /\ Listening
  /\ budget > 0
  /\ budget' = budget - 1
  /\ index' = clearDashboardFromIndex(index, dashboardPath)
  /\ procs' = DetachCleared(Disturb(procs, 0), index, dashboardPath)
  /\ last' = Last("removeDone",
                  [NoProc EXCEPT !.oldPath = dashboardPath,
                                 !.preIdx = {k \in DOMAIN index : Has(index[k], dashboardPath)}],
                  <<>>, 0)
  /\ UNCHANGED <<modifyVars, viewVars, pureVars, registryVars, embedVars, sessionVars, tracker, cfile, dfile, changeCallbacks, layoutReady>>

\* ------------------------------------------------- the plugin and its views
SaveRefs == {"b"}

\* An open view persists a tile's content change (setTileContent, always
\* with a contentRef): vault.modify, whose 'modify' event handleModify
\* ignores for a dashboard file.
SaveDashboard(g, i, ref) ==
  LET d == parseDashFile(dfile[g].text)
  IN /\ Listening
     /\ budget > 0
     /\ dfile[g].exists /\ d.ok
     /\ i \in DOMAIN d.tiles
     /\ d.tiles[i] # ref
     /\ budget' = budget - 1
     /\ dfile' = [dfile EXCEPT ![g].text =
                    serializeDashFile([d EXCEPT !.tiles[i] = ref])]
     /\ procs' = Disturb(procs, 0)
     /\ last' = Last("save", [NoProc EXCEPT !.dfile = g], <<>>, 0)
     /\ UNCHANGED <<modifyVars, viewVars, pureVars, registryVars, embedVars, sessionVars, tracker, cfile, index, changeCallbacks, layoutReady>>

\* The dashboard's file is overwritten from outside the plugin
EditTexts == {BadText}
EditDashboard(g, text) ==
  /\ Listening
  /\ budget > 0
  /\ dfile[g].exists
  /\ dfile[g].text # text
  /\ budget' = budget - 1
  /\ dfile' = [dfile EXCEPT ![g].text = text]
  /\ procs' = Disturb(procs, 0)
  /\ last' = Last("edit", [NoProc EXCEPT !.dfile = g], <<>>, 0)
  /\ UNCHANGED <<modifyVars, viewVars, pureVars, registryVars, embedVars, sessionVars, tracker, cfile, index, changeCallbacks, layoutReady>>

\* createNewDashboard: vault.create of an empty dashboard; the tracker
\* listens to no 'create' event
CreateDashboard(g) ==
  /\ Listening
  /\ budget > 0
  /\ ~dfile[g].exists
  /\ ~PathTaken(dfile[g].path)
  /\ \A s \in Slots : procs[s].kind = "none" \/ procs[s].dfile # g
  /\ budget' = budget - 1
  /\ dfile' = [dfile EXCEPT ![g].exists = TRUE,
                            ![g].text = serializeDashFile(createEmptyDashFile)]
  /\ procs' = Disturb(procs, 0)
  /\ last' = Last("create", [NoProc EXCEPT !.dfile = g], <<>>, 0)
  /\ UNCHANGED <<modifyVars, viewVars, pureVars, registryVars, embedVars, sessionVars, tracker, cfile, index, changeCallbacks, layoutReady>>

\* FileTracker.start
Start ==
  /\ tracker = "new"
  /\ tracker' = "started"
  /\ last' = Last("env", NoProc, <<>>, 0)
  /\ UNCHANGED <<modifyVars, viewVars, pureVars, registryVars, embedVars, sessionVars, cfile, dfile, index, changeCallbacks, procs, layoutReady, budget>>

\* FileTracker.stop: the vault listeners are removed
Stop ==
  /\ tracker = "started"
  /\ tracker' = "stopped"
  /\ procs' = Disturb(procs, 0)
  /\ last' = Last("stop", NoProc, <<>>, 0)
  /\ UNCHANGED <<modifyVars, viewVars, pureVars, registryVars, embedVars, sessionVars, cfile, dfile, index, changeCallbacks, layoutReady, budget>>

\* FileTracker.onFileChange: the plugin's consumers register while it loads,
\* before the tracker is started
OnFileChange(cb) ==
  /\ tracker = "new"
  /\ cb \notin changeCallbacks
  /\ cb = Head(SelectSeq(CbOrder, LAMBDA c : c \notin changeCallbacks))
  /\ changeCallbacks' = changeCallbacks \cup {cb}
  /\ last' = Last("env", NoProc, <<>>, 0)
  /\ UNCHANGED <<modifyVars, viewVars, pureVars, registryVars, embedVars, sessionVars, tracker, cfile, dfile, index, procs, layoutReady, budget>>

\* the disposer onFileChange returned is called: changeCallbacks.delete
Unregister(cb) ==
  /\ Listening
  /\ budget > 0
  /\ cb \in changeCallbacks
  /\ budget' = budget - 1
  /\ changeCallbacks' = changeCallbacks \ {cb}
  /\ procs' = Disturb(procs, 0)
  /\ last' = Last("env", NoProc, <<>>, 0)
  /\ UNCHANGED <<modifyVars, viewVars, pureVars, registryVars, embedVars, sessionVars, tracker, cfile, dfile, index, layoutReady>>

\* ------------------------------------------------- the dashboard view
TileOrder == <<"t1", "t2">>
TileSeq(S) == SelectSeq(TileOrder, LAMBDA t : t \in S)

\* the TFile the view is open on, and plugin.settings
ViewFile == 1
ViewVault == Vault("truthy")

\* The document as the view holds it: its tiles' ids, each tile's meta (no
\* object for a tile without one) and its settings (no object when the key
\* is absent or holds undefined).
NoDocument ==
  [tiles |-> {}, meta |-> [t \in Tiles |-> NoMeta], settings |-> NoSettings]
DocOf(f) == [tiles |-> f.tiles, meta |-> f.meta, settings |-> f.settings]
Loaded(d) ==
  [loaded |-> TRUE, tiles |-> d.tiles, meta |-> d.meta, settings |-> d.settings]

\* the settings a document text's `settings` key stands for
SettingsOf(tag) ==
  IF tag = "s1" THEN DocLayer({"showHeaders"}, "falsy") ELSE NoSettings
TagOf(settings) == IF settings = SettingsOf("s1") THEN "s1" ELSE "absent"

\* tile.meta ?? { widgetType: 'empty' }
OrEmpty(meta) == IF Nullish(meta.is) THEN EmptyMeta ELSE meta
RefOf(meta) ==
  IF Nullish(Get(meta, "contentRef")) THEN None ELSE meta.contentRef

\* parseDashFile(data) as the view reads it: the i-th tile of the text is
\* tile TileOrder[i]; a tile with a contentRef has meta {widgetType:
\* 'embedded', contentRef, showHeader: false}, one without has no meta
FromText(text) ==
  LET d == parseDashFile(text)
      At(t) == {i \in DOMAIN d.tiles : TileOrder[i] = t /\ d.tiles[i] # None}
  IN [tiles |-> {TileOrder[i] : i \in DOMAIN d.tiles},
      meta |-> [t \in Tiles |->
                  IF At(t) = {} THEN NoMeta
                  ELSE Meta([widgetType |-> "embedded",
                             contentRef |-> d.tiles[CHOOSE i \in At(t) : TRUE],
                             showHeader |-> "false"])],
      settings |-> SettingsOf(d.rest.settings)]

\* serializeDashFile(dashFile) as the tracker reads it: the contentRefs of
\* the tiles in order and the settings key
ToText(d) ==
  LET ts == TileSeq(d.tiles)
  IN serializeDashFile(
       [version |-> 2, tiles |-> [i \in DOMAIN ts |-> RefOf(d.meta[ts[i]])],
        rest |-> Rest("r1", TagOf(d.settings), "absent")])

\* the widget state of the view, handed from one call to the next
Aged(ws) == [w \in DOMAIN ws |-> [ws[w] EXCEPT !.fresh = FALSE]]
View ==
  [widgets |-> Aged(widgets), activeWidgets |-> activeWidgets, bridges |-> bridges,
   modelUnsubscribe |-> modelUnsubscribe, subscriptions |-> subscriptions,
   mounting |-> mounting, bridgeCtx |-> bridgeCtx]

\* factory(widgetCtx): a widget with the meta it was given and the effective
\* settings resolved for it; mount() has been called on it. `fresh` marks
\* the instances the last step created, `updates` counts the calls of
\* update() (history)
Widget(t, meta, settings) ==
  [tile |-> t, mounted |-> TRUE, meta |-> meta,
   effectiveSettings |-> resolveEffectiveTileSettings(ViewVault, settings, meta),
   updates |-> 0, fresh |-> TRUE]

\* an instance the view no longer reaches through activeWidgets: only its
\* tile and whether it is mounted are kept of it
Plain(widget) ==
  [tile |-> widget.tile, mounted |-> widget.mounted, meta |-> EmptyMeta,
   effectiveSettings |-> resolveEffectiveTileSettings(ViewVault, NoSettings, EmptyMeta),
   updates |-> 0, fresh |-> FALSE]
Unmounted(widget) == Plain([widget EXCEPT !.mounted = FALSE])

\* widget.unmount(); on an instance already unmounted it changes nothing
WidgetUnmount(ws, w) ==
  [i \in 1..Len(ws) |-> IF i = w THEN Unmounted(ws[i]) ELSE ws[i]]

\* createWidgetBridgeInstance: factory(widgetCtx) for the tile, with the
\* meta and settings of the dashFile the bridge context captured, and the
\* returned mount(): widget.mount(); activeWidgets.set(tileId, widget)
BridgeMount(v, t) ==
  LET w == Len(v.widgets) + 1
      d == v.bridgeCtx.dashFile
      meta == IF t \in d.tiles THEN OrEmpty(d.meta[t]) ELSE EmptyMeta
  IN [v EXCEPT !.widgets = Append(v.widgets, Widget(t, meta, d.settings)),
               !.activeWidgets[t] = w,
               !.bridges[t] = w]

\* the returned unmount(): widget.unmount(); activeWidgets.delete(tileId)
BridgeUnmount(v, t) ==
  [v EXCEPT !.widgets = WidgetUnmount(v.widgets, v.bridges[t]),
            !.activeWidgets[t] = 0,
            !.bridges[t] = 0]

\* updateWidgetForTile: the widget in activeWidgets is unmounted and dropped;
\* if the engine has the tile's element in the container a new widget is
\* created from meta and dashFile.settings, mounted and put in activeWidgets
updateWidgetForTile(v, settings, t, meta) ==
  LET ws == WidgetUnmount(v.widgets, v.activeWidgets[t])
  IN IF v.bridges[t] # 0
     THEN [v EXCEPT !.widgets = Append(ws, Widget(t, meta, settings)),
                    !.activeWidgets[t] = Len(ws) + 1]
     ELSE [v EXCEPT !.widgets = ws, !.activeWidgets[t] = 0]

\* for (const tile of dashFile.tiles) updateWidgetForTile(tile.id,
\* tile.meta || { widgetType: 'empty' }): refreshAllWidgets and the reload
\* loop of setViewData
RECURSIVE refreshAllWidgets(_, _, _)
refreshAllWidgets(v, d, ts) ==
  IF ts = <<>> THEN v
  ELSE refreshAllWidgets(
         updateWidgetForTile(v, d.settings, Head(ts), OrEmpty(d.meta[Head(ts)])),
         d, Tail(ts))

\* unmountAllWidgets: activeWidgets.forEach(w => w.unmount()); clear()
unmountAllWidgets(v) ==
  [v EXCEPT !.widgets = [w \in DOMAIN v.widgets |->
                           IF \E t \in Tiles : v.activeWidgets[t] = w
                           THEN Unmounted(v.widgets[w])
                           ELSE v.widgets[w]],
            !.activeWidgets = [t \in Tiles |-> 0]]

\* refreshEmbeddedContentForFile: update(meta) on the widget activeWidgets
\* holds for each tile of dashFile whose meta.contentRef is filePath, when
\* the widget has an update method (the embedded widget has, the empty
\* widget has not)
HasUpdate(widget) == widget.meta.widgetType = "embedded"
refreshEmbeddedContentForFile(f, v, filePath) ==
  LET affectedTiles == {t \in f.tiles : RefOf(f.meta[t]) = filePath}
  IN [v EXCEPT !.widgets =
        [w \in DOMAIN v.widgets |->
           IF /\ f.loaded
              /\ \E t \in affectedTiles : v.activeWidgets[t] = w
              /\ HasUpdate(v.widgets[w])
           THEN [v.widgets[w] EXCEPT !.updates = @ + 1]
           ELSE v.widgets[w]]]

\* BaseDashboard.unmount: the engine unmounts the bridge of every tile it holds
RECURSIVE EngineUnmountAll(_, _)
EngineUnmountAll(v, ts) ==
  IF ts = <<>> THEN v
  ELSE EngineUnmountAll(
         IF v.bridges[Head(ts)] # 0 THEN BridgeUnmount(v, Head(ts)) ELSE v,
         Tail(ts))

\* BaseDashboard.mount: the engine mounts a bridge for every tile of the layout
RECURSIVE EngineMountAll(_, _)
EngineMountAll(v, ts) ==
  IF ts = <<>> THEN v
  ELSE EngineMountAll(BridgeMount(v, Head(ts)), Tail(ts))

\* model.subscribe(...) assigned to modelUnsubscribe: a handle already
\* there is overwritten, its subscription left in place
Subscribe(v) ==
  [v EXCEPT !.subscriptions = @ + 1, !.modelUnsubscribe = TRUE]

\* DashboardView.cleanupDashboard: the widgets in activeWidgets unmounted,
\* the subscription modelUnsubscribe holds ended, the engine unmounted
cleanupDashboard(v) ==
  LET u == unmountAllWidgets(v)
      w == IF u.modelUnsubscribe
           THEN [u EXCEPT !.subscriptions = @ - 1, !.modelUnsubscribe = FALSE]
           ELSE u
  IN IF dashboard THEN EngineUnmountAll(w, TileOrder) ELSE w

\* widgetBridgeCtx of initializeDashboard: it keeps the dashFile object of
\* that moment; `alias` are the tiles whose tile object this.dashFile still
\* shares with it
Captured(d, alias) == [dashFile |-> d, alias |-> alias]
\* this.dashFile is replaced by an object with tile objects of its own
Replaced(v) == [v EXCEPT !.bridgeCtx.alias = {}]

\* DashboardView.initializeDashboard on a loaded dashFile, up to its
\* `await this.dashboard.mount()`: the old dashboard cleaned up, the new one
\* created and its tiles' bridges mounted
initializeDashboardToMount(v, d) ==
  EngineMountAll([cleanupDashboard(v) EXCEPT !.bridgeCtx = Captured(d, d.tiles)],
                 TileSeq(d.tiles))

\* DashboardView.initializeDashboard when nothing runs before mount()
\* resolves: the model is subscribed to straight away
initializeDashboard(v, d) == Subscribe(initializeDashboardToMount(v, d))

\* Of an instance activeWidgets does not hold, only its tile and whether it
\* is mounted are kept.
Collect(v) ==
  [v EXCEPT !.widgets =
     [w \in DOMAIN v.widgets |->
        IF \E t \in Tiles : v.activeWidgets[t] = w
        THEN v.widgets[w] ELSE Plain(v.widgets[w])]]

SetView(v) ==
  /\ Len(v.widgets) <= MaxWidgets
  /\ widgets' = Collect(v).widgets
  /\ activeWidgets' = v.activeWidgets
  /\ bridges' = v.bridges
  /\ modelUnsubscribe' = v.modelUnsubscribe
  /\ subscriptions' = v.subscriptions
  /\ mounting' = v.mounting
  /\ bridgeCtx' = v.bridgeCtx

\* what the last step of the view was (history)
ViewOp(op, t, contentRef, ok) ==
  [op |-> op, tile |-> t, contentRef |-> contentRef, ok |-> ok]

\* the view's file holds d: vault.modify by the view, or a change made
\* outside it
Store(d) ==
  /\ stored' = d
  /\ dfile' = [dfile EXCEPT ![ViewFile].text = ToText(d)]
  /\ procs' = Disturb(procs, 0)
  /\ UNCHANGED <<tracker, cfile, index, changeCallbacks, layoutReady, last, budget>>

\* the documents the view's file is given from outside
ViewTexts ==
  {YamlDoc(2, ts, Rest("r1", "absent", "absent")) : ts \in {<<"a", None>>, <<"a">>}}
ViewDatas == {FromText(x) : x \in ViewTexts}

\* setViewData(data, clear) with the content of the view's file: the first
\* load of a file (clear) or a reload after the file changed on disk
\* (originalDashFileData is assigned before anything else is looked at)
SetViewData(clear, data) ==
  LET v == IF clear THEN cleanupDashboard(View) ELSE View
  IN /\ dashFile' = Loaded(data)
     /\ Store(data)
     /\ viewLast' = ViewOp("setViewData", "-", "-", clear)
     /\ IF ~clear /\ dashboard
        THEN IF skipNextRefresh
             THEN /\ skipNextRefresh' = FALSE
                  /\ SetView(Replaced(v))
                  /\ UNCHANGED dashboard
             ELSE /\ SetView(refreshAllWidgets(Replaced(v), data, TileSeq(data.tiles)))
                  /\ UNCHANGED <<dashboard, skipNextRefresh>>
        ELSE /\ SetView(initializeDashboard(v, data))
             /\ dashboard' = TRUE
             /\ UNCHANGED skipNextRefresh
     /\ originalDashFileData' = ToText(data)
     /\ UNCHANGED <<modifyVars, pureVars, registryVars, embedVars, mode, sessionStart>>

\* refreshWidgetRegistry: with a dashboard up, initializeDashboard again
RefreshWidgetRegistry ==
  /\ dashboard /\ dashFile.loaded
  /\ SetView(initializeDashboard(View, DocOf(dashFile)))
  /\ viewLast' = ViewOp("refreshWidgetRegistry", "-", "-", TRUE)
  /\ UNCHANGED <<trackerVars, modifyVars, pureVars, registryVars, embedVars, sessionVars, dashFile,
                 dashboard, skipNextRefresh, stored>>

\* handleDashboardChange: the document rebuilt from the model's snapshot,
\* with the settings and, for each tile the document had, the meta it had;
\* a tile without meta is given {widgetType: 'empty'}
handleDashboardChange(f, v) ==
  [f EXCEPT !.tiles = {t \in Tiles : v.bridges[t] # 0},
            !.meta = [t \in Tiles |->
                        IF v.bridges[t] = 0 THEN NoMeta
                        ELSE IF t \in f.tiles THEN OrEmpty(f.meta[t])
                        ELSE EmptyMeta]]

\* The model notifies its subscribers: onDashboardChange ->
\* handleDashboardChange, dashFile follows the model's snapshot and the view
\* asks for a save
Notified(v) == v.subscriptions > 0 /\ dashFile.loaded
onDashboardChange(v) ==
  IF Notified(v)
  THEN /\ dashFile' = handleDashboardChange(dashFile, v)
       /\ skipNextRefresh' = TRUE
  ELSE UNCHANGED <<dashFile, skipNextRefresh>>

\* setTileContent's newMeta: {...meta, widgetType, contentRef}
NewMeta(meta, contentRef) ==
  [OrEmpty(meta) EXCEPT !.widgetType = "embedded", !.contentRef = contentRef]

\* handleSetTileContent -> setTileContent(tileId, contentRef, 'embedded'):
\* the flag is set; the tile's meta is replaced in the dashFile object; the
\* document is written with vault.modify (ok: the write succeeds; a failure
\* is caught and a Notice shown); model.updateTile notifies the model's
\* subscribers or not (notifies; the model is the layout library's); and
\* the tile's widget is replaced by updateWidgetForTile
HandleSetTileContent(t, contentRef, ok, notifies) ==
  IF dashFile.loaded /\ t \in dashFile.tiles
  THEN LET newMeta == NewMeta(dashFile.meta[t], contentRef)
           edited == [dashFile EXCEPT !.meta[t] = newMeta]
           u == IF t \in bridgeCtx.alias
                THEN [View EXCEPT !.bridgeCtx.dashFile.meta[t] = newMeta]
                ELSE View
           changes == notifies /\ dashboard /\ u.subscriptions > 0
           f == IF changes THEN handleDashboardChange(edited, u) ELSE edited
           v == IF changes THEN Replaced(u) ELSE u
       IN /\ skipNextRefresh' = TRUE
          /\ dashFile' = f
          /\ IF ok THEN Store(DocOf(edited))
             ELSE UNCHANGED <<trackerVars, stored>>
          /\ SetView(updateWidgetForTile(v, f.settings, t, newMeta))
          /\ viewLast' = ViewOp("setTileContent", t, contentRef, ok)
          /\ UNCHANGED <<modifyVars, pureVars, registryVars, embedVars, sessionVars, dashboard>>
  ELSE /\ skipNextRefresh' = TRUE
       /\ viewLast' = ViewOp("setTileContent", "-", contentRef, FALSE)
       /\ UNCHANGED <<trackerVars, modifyVars, pureVars, registryVars, embedVars, sessionVars, dashFile,
                      dashboard, bridges, activeWidgets, widgets, modelUnsubscribe,
                      subscriptions, mounting, bridgeCtx, stored>>

\* openDashboardSettings, onSave(settings): the dashFile replaced by a copy
\* with the settings key set (deleted when settings has no keys),
\* refreshAllWidgets, then requestSave
SavedSettings == {Settings(<<>>), SettingsOf("s1")}
SaveDashboardSettings(settings) ==
  LET f == [dashFile EXCEPT !.settings =
              IF settings = Settings(<<>>) THEN NoSettings ELSE settings]
  IN /\ dashFile.loaded
     /\ dashFile' = f
     /\ SetView(refreshAllWidgets(View, DocOf(f), TileSeq(f.tiles)))
     /\ skipNextRefresh' = TRUE
     /\ viewLast' = ViewOp("saveDashboardSettings", "-", "-", TRUE)
     /\ UNCHANGED <<trackerVars, modifyVars, pureVars, registryVars, embedVars, sessionVars, dashboard, stored>>

\* openTileSettings, onSave(meta): the dashFile replaced by a copy with a
\* new tile object holding meta (here the meta the tile has),
\* updateWidgetForTile, then requestSave
SaveTileSettings(t) ==
  LET meta == OrEmpty(dashFile.meta[t])
      f == [dashFile EXCEPT !.meta[t] = meta]
      v == [View EXCEPT !.bridgeCtx.alias = @ \ {t}]
  IN /\ dashFile.loaded /\ t \in dashFile.tiles
     /\ dashFile' = f
     /\ SetView(updateWidgetForTile(v, f.settings, t, meta))
     /\ skipNextRefresh' = TRUE
     /\ viewLast' = ViewOp("saveTileSettings", t, "-", TRUE)
     /\ UNCHANGED <<trackerVars, modifyVars, pureVars, registryVars, embedVars, sessionVars, dashboard, stored>>

\* The layout engine mounts a tile it does not hold (a tile inserted, or a
\* deleted one restored by undo).
EngineMountTile(t) ==
  LET v == BridgeMount(View, t)
  IN /\ dashboard /\ bridges[t] = 0
     /\ SetView(IF Notified(v) THEN Replaced(v) ELSE v)
     /\ onDashboardChange(v)
     /\ viewLast' = ViewOp("engineMount", t, "-", TRUE)
     /\ UNCHANGED <<trackerVars, modifyVars, pureVars, registryVars, embedVars, sessionVars, dashboard, stored>>

\* The layout engine unmounts a tile it holds (deleteTile).
EngineUnmountTile(t) ==
  LET v == BridgeUnmount(View, t)
  IN /\ dashboard /\ bridges[t] # 0
     /\ SetView(IF Notified(v) THEN Replaced(v) ELSE v)
     /\ onDashboardChange(v)
     /\ viewLast' = ViewOp("engineUnmount", t, "-", TRUE)
     /\ UNCHANGED <<trackerVars, modifyVars, pureVars, registryVars, embedVars, sessionVars, dashboard, stored>>

\* onClose -> cleanup -> cleanupDashboard
CloseView ==
  /\ dashboard
  /\ SetView(cleanupDashboard(View))
  /\ dashboard' = FALSE
  /\ viewLast' = ViewOp("close", "-", "-", TRUE)
  /\ UNCHANGED <<trackerVars, modifyVars, pureVars, registryVars, embedVars, sessionVars, dashFile,
                 skipNextRefresh, stored>>

\* setViewData(data, true) whose initializeDashboard is still awaiting
\* dashboard.mount() when the next thing happens
LoadViewSuspends(data) ==
  LET v == initializeDashboardToMount(cleanupDashboard(View), data)
  IN /\ dashFile' = Loaded(data)
     /\ Store(data)
     /\ SetView([v EXCEPT !.mounting = @ + 1])
     /\ dashboard' = TRUE
     /\ viewLast' = ViewOp("setViewData", "-", "-", TRUE)
     /\ originalDashFileData' = ToText(data)
     /\ UNCHANGED <<modifyVars, pureVars, registryVars, embedVars, mode, sessionStart,
                    skipNextRefresh>>

\* dashboard.mount() resolves and an initializeDashboard goes on: with a
\* dashboard in place (its own or a later one) it subscribes to that
\* dashboard's model; with none, this.dashboard.getModel() throws
MountResolved ==
  /\ mounting > 0
  /\ SetView([(IF dashboard THEN Subscribe(View) ELSE View)
                 EXCEPT !.mounting = @ - 1])
  /\ viewLast' = ViewOp("mountResolved", "-", "-", TRUE)
  /\ UNCHANGED <<trackerVars, modifyVars, pureVars, registryVars, embedVars, sessionVars, dashFile,
                 dashboard, skipNextRefresh, stored>>

ViewIdle ==
  /\ dashFile = [loaded |-> FALSE, tiles |-> {},
                 meta |-> [t \in Tiles |-> NoMeta], settings |-> NoSettings]
  /\ dashboard = FALSE
  /\ bridges = [t \in Tiles |-> 0]
  /\ activeWidgets = [t \in Tiles |-> 0]
  /\ widgets = <<>>
  /\ skipNextRefresh = FALSE
  /\ modelUnsubscribe = FALSE
  /\ subscriptions = 0
  /\ mounting = 0
  /\ bridgeCtx = Captured(NoDocument, {})
  /\ stored = FromText(dfile[ViewFile].text)
  /\ viewLast = ViewOp("init", "-", "-", TRUE)

\* ------------------------------------------------- modify notifications
\* the two dashboards of the vault the modify and view models run on
ScannedTexts == <<YamlText(<<"a", "b">>), YamlText(<<"a", None>>)>>
\* a slip: the callbacks are handed every dashboard the index knows
notifyModifyCallbacks_AllDashboards(filePath) ==
  IF filePath \notin DOMAIN index \/ index[filePath] = <<>> THEN <<>>
  ELSE LET cbs == SelectSeq(<<"m1", "m2">>, LAMBDA c : c \in modifyCallbacks)
           all == SelectSeq(<<"D1", "D2", "D3">>,
                    LAMBDA d : \E k \in DOMAIN index : Has(index[k], d))
       IN [i \in DOMAIN cbs |-> <<cbs[i], filePath, all, now>>]

\* FileTracker.notifyModifyCallbacks: the calls it makes, in registration order
notifyModifyCallbacks(filePath) ==
  IF filePath \notin DOMAIN index \/ index[filePath] = <<>> THEN <<>>
  ELSE LET cbs == SelectSeq(<<"m1", "m2">>, LAMBDA c : c \in modifyCallbacks)
       IN [i \in DOMAIN cbs |-> <<cbs[i], filePath, index[filePath], now>>]

\* The plugin's onFileModify callback (m1, the first one registered): every
\* open dashboard view whose file is one of dashboardPaths refreshes the
\* embedded content of filePath
onFileModify(v, filePath, dashboardPaths) ==
  IF dashboard /\ Has(dashboardPaths, dfile[ViewFile].path)
  THEN refreshEmbeddedContentForFile(dashFile, v, filePath)
  ELSE v

\* The vault emits 'modify' for a file: handleModify passes a referenced
\* non-dashboard path to debouncedModifyHandler, the one debounced function
\* the constructor made (leading edge: it calls through when no window is
\* open and opens one; a call inside the window is dropped and leaves the
\* window as it is).
ModifyFile(path) ==
  LET referenced == ~IsDash(path) /\ path \in DOMAIN index /\ index[path] # <<>>
      fires == referenced /\ now >= windowEnd
  IN /\ tracker = "started"
     /\ last.op = "indexAllDone"
     /\ Len(modEvents) < MaxModifies
     /\ modEvents' = Append(modEvents,
          [path |-> path, time |-> now, referenced |-> referenced, fired |-> fires])
     /\ windowEnd' = IF fires THEN now + DebounceWindow ELSE windowEnd
     /\ modCalls' = IF fires THEN modCalls \o notifyModifyCallbacks(path) ELSE modCalls
     /\ widgets' = IF fires /\ "m1" \in modifyCallbacks
                   THEN onFileModify(View, path, index[path]).widgets
                   ELSE Aged(widgets)
     /\ UNCHANGED <<trackerVars, pureVars, registryVars, embedVars, sessionVars, now, modifyCallbacks,
                    dashFile, dashboard, bridges, activeWidgets, skipNextRefresh,
                    modelUnsubscribe, subscriptions, mounting, bridgeCtx, stored,
                    viewLast>>

\* time passes
Tick ==
  /\ now < MaxTime
  /\ now' = now + 1
  /\ UNCHANGED <<trackerVars, viewVars, pureVars, registryVars, embedVars, sessionVars, windowEnd, modifyCallbacks, modEvents, modCalls>>

\* FileTracker.onFileModify: the consumers register as the plugin loads
OnFileModify(cb) ==
  /\ cb \notin modifyCallbacks
  /\ cb = Head(SelectSeq(<<"m1", "m2">>, LAMBDA c : c \notin modifyCallbacks))
  /\ modEvents = <<>>
  /\ modifyCallbacks' = modifyCallbacks \cup {cb}
  /\ UNCHANGED <<trackerVars, viewVars, pureVars, registryVars, embedVars, sessionVars, now, windowEnd, modEvents, modCalls>>

ModifyIdle ==
  /\ now = 0
  /\ windowEnd = 0
  /\ modifyCallbacks = {}
  /\ modEvents = <<>>
  /\ modCalls = <<>>

\* ------------------------------------------------------ widget registry
\* widget types: the built-in ones, one another plugin registers, one nobody
\* registers, and two that name members of Object.prototype
WidgetTypes == {"empty", "embedded", "chart", "nope", "constructor", "__proto__"}
ExternalTypes == {"empty", "chart"}     \* the types other plugins register
ExternalFactories == {"chartFactory", "otherFactory"}
WidgetFactories == {"createEmptyWidget", "createEmbeddedLeafWidget"}
                   \cup ExternalFactories

\* what a plain object inherits: Object.prototype.constructor is the function
\* Object, and __proto__ reads as Object.prototype itself
ObjectPrototype == [constructor |-> "Object", __proto__ |-> "Object.prototype"]

\* an object literal with no own properties; obj[key]: the own property, or
\* the one inherited from Object.prototype, or undefined
NoProperties == [k \in WidgetTypes |-> Undef]
Property_Own(obj, key) == obj[key]
Property(obj, key) ==
  IF obj[key] # Undef THEN obj[key]
  ELSE IF key \in DOMAIN ObjectPrototype THEN ObjectPrototype[key]
  ELSE Undef

\* builtInWidgets
builtInWidgets ==
  [NoProperties EXCEPT !.empty = "createEmptyWidget",
                       !.embedded = "createEmbeddedLeafWidget"]

\* createWidgetRegistry: { ...builtInWidgets, ...customWidgets }
createWidgetRegistry(customWidgets) ==
  [k \in WidgetTypes |->
     IF customWidgets[k] # Undef THEN customWidgets[k] ELSE builtInWidgets[k]]

\* getWidgetFactory: registry[widgetType] ?? registry['empty'] ?? createEmptyWidget
getWidgetFactory(registry, widgetType) ==
  Coalesce(Property(registry, widgetType),
           Coalesce(Property(registry, "empty"), "createEmptyWidget"))

\* the plugin loaded and the view constructed: no external widgets, the
\* view's registry built from them
RegistryNew ==
  /\ externalWidgets = NoProperties
  /\ widgetRegistry = createWidgetRegistry(NoProperties)

\* --------------------------------------------------- embedded widget
\* One instance made by createEmbeddedLeafWidget for a tile whose meta
\* names the markdown file a (interactionMode 'double-click'). `leaf` holds
\* the closure's variables, the embeds it created, the edit-mode state
\* objects it made, its async calls that are suspended, and the listeners
\* on `document`.
MaxLeafEmbeds == 3       \* embeds one instance creates
MaxLeafStates == 3       \* edit-mode state objects one instance makes
LeafRefs == {"a", "b"}   \* markdown files of the vault

\* createEditModeState()
NewEditModeState ==
  [isEditing |-> FALSE, escapeHandler |-> FALSE, clickOutsideHandler |-> FALSE]

\* s with its i-th element replaced by x
SeqSet(s, i, x) == [k \in 1..Len(s) |-> IF k = i THEN x ELSE s[k]]

\* createEmbeddedLeafWidget(ctx): contentRef is read from meta once, here
LeafNew ==
  [meta |-> "a", contentRef |-> "a", container |-> FALSE, currentFile |-> None,
   currentEmbed |-> 0, editModeState |-> 1, states |-> <<NewEditModeState>>,
   created |-> <<>>, pending |-> <<>>, listeners |-> {},
   last |-> [op |-> "new"]]

\* the plugin loaded: no dashboard embed has been created, the embedded
\* widget instance not yet mounted
EmbedIdle ==
  /\ currentEmbedDepth = 0
  /\ embeds = <<>>
  /\ leaf = LeafNew

\* the view constructed: view mode, originalDashFileData = ''
SessionIdle ==
  /\ mode = "view"
  /\ originalDashFileData = BlankText
  /\ sessionStart = NoDocument

\* registerWidget(widgetType, factory): the factory is stored and every open
\* view takes a fresh registry (refreshWidgetRegistry; the view has no
\* dashboard up, so nothing is re-initialised)
RegisterWidget(widgetType, factory) ==
  /\ externalWidgets' = [externalWidgets EXCEPT ![widgetType] = factory]
  /\ widgetRegistry' = createWidgetRegistry(externalWidgets')
  /\ UNCHANGED <<trackerVars, modifyVars, viewVars, pureVars, embedVars, sessionVars>>

\* the cleanup function registerWidget returned: the type is deleted from
\* externalWidgets; no view is told
UnregisterWidget(widgetType) ==
  /\ externalWidgets[widgetType] # Undef
  /\ externalWidgets' = [externalWidgets EXCEPT ![widgetType] = Undef]
  /\ UNCHANGED <<trackerVars, modifyVars, viewVars, pureVars, widgetRegistry, embedVars, sessionVars>>

\* the view is opened anew (its constructor builds the registry)
NewView ==
  /\ widgetRegistry # createWidgetRegistry(externalWidgets)
  /\ widgetRegistry' = createWidgetRegistry(externalWidgets)
  /\ UNCHANGED <<trackerVars, modifyVars, viewVars, pureVars, externalWidgets, embedVars, sessionVars>>

\* a widget is to be created for a tile whose meta has the given widgetType
\* (Undef: none): getWidgetFactory(widgetRegistry, meta.widgetType ?? 'empty')
LookupFactory(kind) ==
  /\ call' = [fn |-> "getWidgetFactory", registry |-> widgetRegistry, kind |-> kind,
              result |-> getWidgetFactory(widgetRegistry, Coalesce(kind, "empty"))]
  /\ UNCHANGED <<trackerVars, modifyVars, viewVars, registryVars, embedVars, sessionVars>>

\* ------------------------------------------------------------------- Init
\* the vaults the plugin starts on: two dashboards referencing one file; a
\* dashboard without a version key nesting another one, which does not parse
InitVaults == {<<YamlText(<<"a", "b">>), YamlText(<<"a", None>>)>>,
               <<YamlDoc(0, <<"D2", "a">>, Rest("r2", "s1", "true")), BadText>>}

\* the vault as the plugin finds it, and the tracker just constructed
TrackerNew(t1, t2) ==
  /\ tracker = "new"
  /\ cfile = [f \in ContentFiles |->
               [path |-> IF f = 1 THEN "a" ELSE "b", exists |-> TRUE]]
  /\ dfile = [g \in DashFiles |->
               [path |-> IF g = 1 THEN "D1" ELSE "D2", exists |-> TRUE,
                text |-> IF g = 1 THEN t1 ELSE t2]]
  /\ index = EmptyIndex
  /\ layoutReady = FALSE
  /\ changeCallbacks = {}
  /\ procs = [s \in Slots |-> NoProc]
  /\ last = Last("init", NoProc, <<>>, 0)
  /\ budget = MaxEvents

Init ==
  /\ \E v \in InitVaults : TrackerNew(v[1], v[2])
  /\ ModifyIdle
  /\ ViewIdle
  /\ call = NoCall
  /\ RegistryNew
  /\ EmbedIdle
  /\ SessionIdle

\* handler steps: the awaited reads and writes resolving
Resume ==
  \/ \E s \in Slots : RenameReadDone(s)
  \/ \E s \in Slots, ok \in BOOLEAN : RenameWriteDone(s, ok)
  \/ \E s \in Slots : IndexReadDone(s)

Setup ==
  \/ Start
  \/ \E cb \in Callbacks : OnFileChange(cb)
  \/ IndexAllCall

Next ==
  \/ Setup
  \/ \E f \in ContentFiles, np \in ContentPaths : RenameContent(f, np)
  \/ \E g \in DashFiles, np \in DashPaths : RenameDash(g, np)
  \/ \E f \in ContentFiles : DeleteContent(f)
  \/ \E g \in DashFiles : DeleteDash(g)
  \/ \E g \in DashFiles : IndexDashboardCall(g)
  \/ \E g \in DashFiles : RemoveDashboardCall(dfile[g].path)
  \/ \E g \in DashFiles, i \in TileIdx, r \in SaveRefs : SaveDashboard(g, i, r)
  \/ \E g \in DashFiles, t \in EditTexts : EditDashboard(g, t)
  \/ \E g \in DashFiles : CreateDashboard(g)
  \/ \E cb \in Callbacks : Unregister(cb)
  \/ Resume

\* the running tracker: every storage event, API call and handler step
Spec == Init /\ [][Next]_vars

\* the running tracker with change callbacks that may throw
NextThrow ==
  \/ Next
  \/ \E f \in ContentFiles : DeleteContentThrows(f)

SpecThrow == Init /\ [][NextThrow]_vars

\* teardown: the tracker is stopped while events arrive and handlers run
NextStop ==
  \/ Setup
  \/ Stop
  \/ \E f \in ContentFiles, np \in ContentPaths : RenameContent(f, np)
  \/ \E g \in DashFiles, np \in DashPaths : RenameDash(g, np)
  \/ \E f \in ContentFiles : DeleteContent(f)
  \/ \E g \in DashFiles : DeleteDash(g)
  \/ Resume

SpecStop == Init /\ [][NextStop]_vars

\* modify notifications: the tracker on either vault; the events arrive once
\* its first scan has completed
InitModify ==
  /\ \E v \in InitVaults : TrackerNew(v[1], v[2])
  /\ ModifyIdle
  /\ ViewIdle
  /\ call = NoCall
  /\ RegistryNew
  /\ EmbedIdle
  /\ SessionIdle

\* the files modified: referenced ones, one no dashboard references, and a
\* dashboard (one that, in the second vault, another dashboard references)
ModifyPaths == {"a", "b", "c", "D2"}

NextModify ==
  \/ Start
  \/ IndexAllCall
  \/ \E s \in Slots : IndexReadDone(s)
  \/ \E cb \in ModifyCallbacks : OnFileModify(cb)
  \/ \E path \in ModifyPaths : ModifyFile(path)
  \/ Tick

SpecModify == InitModify /\ [][NextModify]_vars

\* one open dashboard view and the layout engine under it
InitView ==
  /\ TrackerNew(ScannedTexts[1], ScannedTexts[2])
  /\ ModifyIdle
  /\ ViewIdle
  /\ call = NoCall
  /\ RegistryNew
  /\ EmbedIdle
  /\ SessionIdle

NextView ==
  \/ \E clear \in BOOLEAN, data \in ViewDatas : SetViewData(clear, data)
  \/ RefreshWidgetRegistry
  \/ \E t \in Tiles : HandleSetTileContent(t, "b", TRUE, FALSE)
  \/ \E settings \in {Settings(<<>>)} : SaveDashboardSettings(settings)
  \/ \E t \in Tiles : SaveTileSettings(t)
  \/ \E t \in Tiles : EngineMountTile(t)
  \/ \E t \in Tiles : EngineUnmountTile(t)
  \/ CloseView

SpecView == InitView /\ [][NextView]_vars

\* an open view edited: content set on its tiles (the write succeeding or
\* failing), the dashboard's settings saved, the file reloaded, tiles
\* inserted and deleted
NextEdit ==
  \/ \E clear \in BOOLEAN, data \in ViewDatas : SetViewData(clear, data)
  \/ \E t \in Tiles, ok \in BOOLEAN, n \in BOOLEAN : HandleSetTileContent(t, "b", ok, n)
  \/ \E settings \in SavedSettings : SaveDashboardSettings(settings)
  \/ \E t \in Tiles : EngineMountTile(t)
  \/ \E t \in Tiles : EngineUnmountTile(t)

SpecEdit == InitView /\ [][NextEdit]_vars

\* an open view whose file changes under it: the view sets content on its
\* tiles, the write succeeding or failing; a write that succeeded is
\* followed by the reload it causes, setViewData(data, false) with the
\* document the view wrote; and the file is changed from outside, which
\* reloads the view with a document the view did not write
OwnWritePending == viewLast.op = "setTileContent" /\ viewLast.ok
OwnReload == OwnWritePending /\ SetViewData(FALSE, stored)
ExternalChange(data) ==
  ~OwnWritePending /\ data # stored /\ SetViewData(~dashboard, data)

NextReload ==
  \/ OwnReload
  \/ \E data \in ViewDatas : ExternalChange(data)
  \/ \E t \in Tiles, ok \in BOOLEAN :
       ~OwnWritePending /\ dashboard /\ HandleSetTileContent(t, "b", ok, FALSE)

SpecReload == InitView /\ [][NextReload]_vars

\* toggleMode / setMode('edit') on an open view: an edit session begins
EnterEditMode ==
  /\ mode = "view" /\ dashboard /\ dashFile.loaded
  /\ mode' = "edit"
  /\ sessionStart' = DocOf(dashFile)
  /\ viewLast' = ViewOp("setMode", "-", "-", TRUE)
  /\ UNCHANGED <<trackerVars, modifyVars, pureVars, registryVars, embedVars,
                 originalDashFileData, dashFile, dashboard, bridges, activeWidgets,
                 widgets, skipNextRefresh, modelUnsubscribe, subscriptions, mounting,
                 bridgeCtx, stored>>

\* discardAndExit(buildMutationContext()): with originalDashFileData not
\* empty, the view's document becomes parseDashFile(originalDashFileData)
\* (onDashFileChange, which also re-serialises it into
\* originalDashFileData) and the dashboard is initialised again
\* (onReinitialize); then setMode('view'). Nothing is written to the file.
DiscardAndExit ==
  /\ mode = "edit"
  /\ IF originalDashFileData # BlankText
     THEN LET reverted == FromText(originalDashFileData)
          IN /\ dashFile' = Loaded(reverted)
             /\ originalDashFileData' = ToText(reverted)
             /\ SetView(initializeDashboard(View, reverted))
             /\ dashboard' = TRUE
     ELSE UNCHANGED <<dashFile, originalDashFileData, dashboard, bridges,
                      activeWidgets, widgets, modelUnsubscribe, subscriptions,
                      mounting, bridgeCtx>>
  /\ mode' = "view"
  /\ viewLast' = ViewOp("discardAndExit", "-", "-", TRUE)
  /\ UNCHANGED <<trackerVars, modifyVars, pureVars, registryVars, embedVars,
                 sessionStart, skipNextRefresh, stored>>

\* edit sessions on an open view: the view is opened, edit mode entered,
\* content set on tiles (the write succeeding, and then followed by its
\* reload, or failing), the dashboard's settings saved, tiles deleted, and
\* the session discarded
NextDiscard ==
  \/ \E data \in ViewDatas : ~dashboard /\ SetViewData(TRUE, data)
  \/ EnterEditMode
  \/ OwnReload
  \/ \E t \in Tiles, ok \in BOOLEAN :
       mode = "edit" /\ ~OwnWritePending /\ HandleSetTileContent(t, "b", ok, FALSE)
  \/ \E settings \in SavedSettings :
       mode = "edit" /\ ~OwnWritePending /\ SaveDashboardSettings(settings)
  \/ \E t \in Tiles : mode = "edit" /\ ~OwnWritePending /\ EngineUnmountTile(t)
  \/ ~OwnWritePending /\ DiscardAndExit

SpecDiscard == InitView /\ [][NextDiscard]_vars

\* opening, re-opening and closing a view while the layout engine mounts
NextTeardown ==
  \/ \E data \in ViewDatas : LoadViewSuspends(data)
  \/ MountResolved
  \/ \E t \in Tiles : EngineMountTile(t)
  \/ \E t \in Tiles : EngineUnmountTile(t)
  \/ CloseView

SpecTeardown == InitView /\ [][NextTeardown]_vars

\* the plugin at work: the tracker started, the plugin's modify callback
\* registered and the dashboards indexed; then content files are modified as
\* time passes while a view on the first dashboard is opened on the stored
\* document, reloaded, given new content for a tile, and has tiles deleted
MaxRefreshEvents == 2   \* 'modify' events while the view is watched
RefreshPaths == {"a", "b", "c"}
PluginLoaded == last.op = "indexAllDone" /\ "m1" \in modifyCallbacks
NextRefresh ==
  \/ Start
  \/ OnFileModify("m1")
  \/ "m1" \in modifyCallbacks /\ IndexAllCall
  \/ \E s \in Slots : IndexReadDone(s)
  \/ \E path \in RefreshPaths :
       PluginLoaded /\ Len(modEvents) < MaxRefreshEvents /\ ModifyFile(path)
  \/ PluginLoaded /\ now < DebounceWindow /\ Tick
  \/ PluginLoaded /\ SetViewData(~dashboard, stored)
  \/ \E t \in Tiles : PluginLoaded /\ HandleSetTileContent(t, "c", TRUE, FALSE)
  \/ \E t \in Tiles : PluginLoaded /\ EngineUnmountTile(t)

SpecRefresh == InitView /\ [][NextRefresh]_vars

\* renames racing: with the first scan over, the two content files are
\* renamed (to names no file has) while the handlers of earlier renames are
\* suspended at their reads and writes; every write goes through
RacePaths == {"c", "d"}
Scanned == layoutReady /\ \A s \in Slots : procs[s].kind # "index"
NextRace ==
  \/ Start
  \/ IndexAllCall
  \/ \E s \in Slots : IndexReadDone(s)
  \/ \E f \in ContentFiles, np \in RacePaths : Scanned /\ RenameContent(f, np)
  \/ \E s \in Slots : RenameReadDone(s)
  \/ \E s \in Slots : RenameWriteDone(s, TRUE)

SpecRace == InitView /\ [][NextRace]_vars

\* a rename arriving during the first scan: as above, but the rename may
\* come as soon as the scan has begun
NextRescan ==
  \/ Start
  \/ IndexAllCall
  \/ \E s \in Slots : IndexReadDone(s)
  \/ \E f \in ContentFiles, np \in RacePaths : RenameContent(f, np)
  \/ \E s \in Slots : RenameReadDone(s)
  \/ \E s \in Slots : RenameWriteDone(s, TRUE)

SpecRescan == InitView /\ [][NextRescan]_vars

\* ----------------------------------------------------- layout changes
\* A tile as the change handlers see it: its id and its meta (NoMeta when
\* the tile has none); a tile array is a sequence of tiles.
LayoutTile(id, meta) == [id |-> id, meta |-> meta]

\* tiles.find(t => t.id === id): the index of the first such tile, or 0
FindTile(tiles, id) ==
  LET hits == {i \in DOMAIN tiles : tiles[i].id = id}
  IN IF hits = {} THEN 0 ELSE CHOOSE i \in hits : \A j \in hits : i <= j

\* The meta a rebuilt tile ends with: the existing tile's meta when there is
\* an existing tile and it has one (existingTile?.meta); otherwise
\* {widgetType: 'empty'} when the tile brought none of its own (!tile.meta),
\* else its own
mergedMeta(tile, srcTiles) ==
  LET k == FindTile(srcTiles, tile.id)
  IN IF k # 0 /\ ~Nullish(srcTiles[k].meta.is) THEN srcTiles[k].meta
     ELSE IF Nullish(tile.meta.is) THEN EmptyMeta
     ELSE tile.meta

\* mergeTileMetadata(destTiles, srcTiles): destTiles.map(...), every tile
\* copied with its merged meta or returned as it is
mergeTileMetadata(destTiles, srcTiles) ==
  [i \in 1..Len(destTiles) |->
     LayoutTile(destTiles[i].id, mergedMeta(destTiles[i], srcTiles))]

\* the tiles of snapshotToDashFile(snapshot, settings): a new array of new
\* tile objects, each with the snapshot tile's id and meta
snapshotTiles(snapshot) ==
  [i \in 1..Len(snapshot) |-> LayoutTile(snapshot[i].id, snapshot[i].meta)]

\* handleDashboardChange's loop over newDashFile.tiles: the document handed
\* to onUpdate
rebuiltDashFile(snapshot, currentDashFile) ==
  [tiles |-> mergeTileMetadata(snapshotTiles(snapshot), currentDashFile.tiles),
   settings |-> currentDashFile.settings]

\* the tile arrays the model's snapshot and the view's document can hold:
\* none, one or two tiles, a tile with no meta, the empty meta or a content
\* reference
SnapshotMetas ==
  {NoMeta, EmptyMeta, Meta([widgetType |-> "embedded", contentRef |-> "a"])}
DocumentMetas ==
  {NoMeta, EmptyMeta,
   Meta([widgetType |-> "embedded", contentRef |-> "b", showHeader |-> "true"])}
LayoutTilesOver(metas) ==
  {<<>>} \cup {<<LayoutTile("t1", m)>> : m \in metas}
  \cup {<<LayoutTile("t1", m), LayoutTile("t2", n)>> : m, n \in metas}

InitLayout ==
  /\ TrackerNew(ScannedTexts[1], ScannedTexts[2])
  /\ ModifyIdle
  /\ ViewIdle
  /\ RegistryNew
  /\ EmbedIdle
  /\ SessionIdle
  /\ call \in {[fn |-> "layout", snapshot |-> s,
               dashFile |-> [tiles |-> d, settings |-> st]] :
                 s \in LayoutTilesOver(SnapshotMetas),
                 d \in LayoutTilesOver(DocumentMetas),
                 st \in {NoSettings, SettingsOf("s1")}}

\* handleDashboardChange(dashboard, currentDashFile, onUpdate): the document
\* onUpdate receives, and the snapshot and the current document as the call
\* leaves them (it assigns only to the tiles snapshotToDashFile created)
HandleDashboardChangeCall ==
  /\ call.fn = "layout"
  /\ call' = [fn |-> "handleDashboardChange",
              snapshot |-> call.snapshot, dashFile |-> call.dashFile,
              result |-> rebuiltDashFile(call.snapshot, call.dashFile),
              snapshotAfter |-> call.snapshot, dashFileAfter |-> call.dashFile]
  /\ UNCHANGED <<trackerVars, modifyVars, viewVars, registryVars, embedVars, sessionVars>>

\* mergeTileMetadata(snapshot tiles, document tiles): the array returned,
\* and the two arrays as the call leaves them (map and the object spreads
\* write to neither)
MergeTileMetadataCall ==
  /\ call.fn = "layout"
  /\ call' = [fn |-> "mergeTileMetadata",
              snapshot |-> call.snapshot, dashFile |-> call.dashFile,
              result |-> [tiles |-> mergeTileMetadata(call.snapshot, call.dashFile.tiles),
                          settings |-> call.dashFile.settings],
              snapshotAfter |-> call.snapshot, dashFileAfter |-> call.dashFile]
  /\ UNCHANGED <<trackerVars, modifyVars, viewVars, registryVars, embedVars, sessionVars>>

NextLayout ==
  \/ HandleDashboardChangeCall
  \/ MergeTileMetadataCall

SpecLayout == InitLayout /\ [][NextLayout]_vars

\* ------------------------------------------------- nested dashboards
\* A dashboard whose tiles embed the dashboard itself is opened in a view.
\* Every embedded widget that mounts calls the embed factory at once
\* (mount -> handleRenderEmbed -> renderUsingEmbed, all before the first
\* await) and then the component's loadFile().
MAX_DEPTH == 3
MaxEmbeds == 7           \* components created in one run
NestTiles == 2           \* tiles of the dashboard, each embedding it
EmbedIds == 1..MaxEmbeds

\* createDashEmbedFactory's factory followed by loadFile() up to its first
\* await: the component takes the module's currentEmbedDepth as its depth;
\* at MAX_DEPTH or more it renders the depth-limit error, else it starts
\* reading its file
DashEmbedComponent(depth, level) ==
  [depth |-> depth, level |-> level,
   pc |-> IF depth >= MAX_DEPTH THEN "limit" ELSE "read",
   pending |-> 0]

\* The view mounts the embedded widget of a tile: the first component
ViewMountsEmbed ==
  /\ embeds = <<>>
  /\ embeds' = <<DashEmbedComponent(currentEmbedDepth, 0)>>
  /\ UNCHANGED <<currentEmbedDepth, leaf, trackerVars, modifyVars, viewVars, pureVars, registryVars, sessionVars>>

\* loadFile resumes from vault.read: the file parsed, currentEmbedDepth set
\* to depth + 1, the nested dashboard constructed and its mount() called
\* and awaited; the layout engine has the widgets of its tiles to create
EmbedReadDone(c) ==
  /\ c \in DOMAIN embeds /\ embeds[c].pc = "read"
  /\ currentEmbedDepth' = embeds[c].depth + 1
  /\ embeds' = [embeds EXCEPT ![c].pc = "mount", ![c].pending = NestTiles]
  /\ UNCHANGED <<leaf, trackerVars, modifyVars, viewVars, pureVars, registryVars, sessionVars>>

\* vault.read or parseDashFile throws: the catch renders the error and
\* sets currentEmbedDepth to the component's depth
EmbedReadFails(c) ==
  /\ c \in DOMAIN embeds /\ embeds[c].pc = "read"
  /\ currentEmbedDepth' = embeds[c].depth
  /\ embeds' = [embeds EXCEPT ![c].pc = "error"]
  /\ UNCHANGED <<leaf, trackerVars, modifyVars, viewVars, pureVars, registryVars, sessionVars>>

\* While mount() is pending the layout engine creates and mounts the widget
\* of one more tile of the nested dashboard: a component one level deeper
EngineMountsNested(c) ==
  /\ c \in DOMAIN embeds /\ embeds[c].pc = "mount" /\ embeds[c].pending > 0
  /\ Len(embeds) < MaxEmbeds
  /\ embeds' = Append([i \in 1..Len(embeds) |->
                         IF i = c THEN [embeds[i] EXCEPT !.pending = @ - 1]
                         ELSE embeds[i]],
                      DashEmbedComponent(currentEmbedDepth, embeds[c].level + 1))
  /\ UNCHANGED <<currentEmbedDepth, leaf, trackerVars, modifyVars, viewVars, pureVars, registryVars, sessionVars>>

\* mount() resolves once every tile has its widget: loadFile resets
\* currentEmbedDepth to the component's depth and returns
EmbedMountResolved(c) ==
  /\ c \in DOMAIN embeds /\ embeds[c].pc = "mount" /\ embeds[c].pending = 0
  /\ currentEmbedDepth' = embeds[c].depth
  /\ embeds' = [embeds EXCEPT ![c].pc = "done"]
  /\ UNCHANGED <<leaf, trackerVars, modifyVars, viewVars, pureVars, registryVars, sessionVars>>

InitNest ==
  /\ TrackerNew(ScannedTexts[1], ScannedTexts[2])
  /\ ModifyIdle
  /\ ViewIdle
  /\ RegistryNew
  /\ EmbedIdle
  /\ SessionIdle
  /\ call = NoCall

NextNest ==
  \/ ViewMountsEmbed
  \/ \E c \in EmbedIds : EmbedReadDone(c)
  \/ \E c \in EmbedIds : EmbedReadFails(c)
  \/ \E c \in EmbedIds : EngineMountsNested(c)
  \/ \E c \in EmbedIds : EmbedMountResolved(c)

SpecNest == InitNest /\ [][NextNest]_vars

\* what update() may leave as it was
LeafShown(l) ==
  [container |-> l.container, currentFile |-> l.currentFile,
   currentEmbed |-> l.currentEmbed, meta |-> l.meta]

\* mount(): the container made, editModeState.isEditing set from the
\* interaction mode, the file of contentRef looked up, and
\* handleRenderEmbed() -> renderUsingEmbed up to its await: the embed made
\* by the registry's factory, stored by onEmbedChange, loadFile() called
mountLeaf(l) ==
  LET e == Len(l.created) + 1
  IN [l EXCEPT
        !.container = TRUE,
        !.states = SeqSet(l.states, l.editModeState,
                          [l.states[l.editModeState] EXCEPT !.isEditing = FALSE]),
        !.currentFile = l.contentRef,
        !.created = Append(l.created,
                           [file |-> l.contentRef, editor |-> FALSE, loaded |-> FALSE]),
        !.currentEmbed = e,
        !.pending = Append(l.pending,
                           [kind |-> "render", embed |-> e,
                            state |-> l.editModeState, pc |-> "loadFile"])]

\* unmount(): removeEditModeListeners(editModeState), destroyEmbed(
\* currentEmbed) (embed.unload()), the container removed, the variables
\* nulled and editModeState replaced by a new object
unmountLeaf(l) ==
  LET s == l.editModeState
      off == [l.states[s] EXCEPT !.escapeHandler = FALSE,
                                 !.clickOutsideHandler = FALSE]
  IN [l EXCEPT
        !.listeners = {x \in l.listeners : x[1] # s},
        !.states = Append(SeqSet(l.states, s, off), NewEditModeState),
        !.editModeState = Len(l.states) + 1,
        !.created = IF l.currentEmbed = 0 THEN l.created
                    ELSE SeqSet(l.created, l.currentEmbed,
                                [l.created[l.currentEmbed] EXCEPT !.loaded = FALSE]),
        !.currentEmbed = 0,
        !.container = FALSE,
        !.currentFile = None]

LeafStep(l, op) ==
  /\ leaf' = [l EXCEPT !.last = op]
  /\ UNCHANGED <<currentEmbedDepth, embeds, trackerVars, modifyVars, viewVars,
                 pureVars, registryVars, sessionVars>>

\* the bridge mounts the widget
LeafMount ==
  /\ ~leaf.container /\ Len(leaf.created) < MaxLeafEmbeds
  /\ LeafStep(mountLeaf(leaf), [op |-> "mount"])

\* renderUsingEmbed resumes from `await embed.loadFile()`: embed.load()
LeafRenderResumes(p) ==
  /\ p \in DOMAIN leaf.pending
  /\ leaf.pending[p].kind = "render" /\ leaf.pending[p].pc = "loadFile"
  /\ LET e == leaf.pending[p].embed
     IN LeafStep([leaf EXCEPT
          !.created = SeqSet(leaf.created, e, [leaf.created[e] EXCEPT !.loaded = TRUE]),
          !.pending = SeqSet(leaf.pending, p, [leaf.pending[p] EXCEPT !.pc = "done"])],
          [op |-> "rendered"])

\* a double click on the locked widget: handleSetLocked(false) ->
\* setLocked(false, editModeState, ctx) -> createNativeEditor up to its
\* await: isEditing set, an editable embed made and stored by
\* onEmbedChange, loadFile() called
LeafUnlock ==
  /\ leaf.container /\ leaf.currentFile # None
  /\ ~leaf.states[leaf.editModeState].isEditing
  /\ Len(leaf.created) < MaxLeafEmbeds
  /\ LET e == Len(leaf.created) + 1
         s == leaf.editModeState
     IN LeafStep([leaf EXCEPT
          !.states = SeqSet(leaf.states, s, [leaf.states[s] EXCEPT !.isEditing = TRUE]),
          !.created = Append(leaf.created,
                             [file |-> leaf.currentFile, editor |-> TRUE, loaded |-> FALSE]),
          !.currentEmbed = e,
          !.pending = Append(leaf.pending,
                             [kind |-> "edit", embed |-> e, state |-> s, pc |-> "loadFile"])],
          [op |-> "unlock"])

\* setLocked resumes from `await createNativeEditor(ctx)`:
\* addEditModeListeners(state, ...) on the state object the call was given:
\* both handlers made, 'keydown' added to document, a timer set for 'click'
LeafEditResumes(p) ==
  /\ p \in DOMAIN leaf.pending
  /\ leaf.pending[p].kind = "edit" /\ leaf.pending[p].pc = "loadFile"
  /\ LET s == leaf.pending[p].state
     IN LeafStep([leaf EXCEPT
          !.states = SeqSet(leaf.states, s,
                            [leaf.states[s] EXCEPT !.escapeHandler = TRUE,
                                                   !.clickOutsideHandler = TRUE]),
          !.listeners = leaf.listeners \cup {<<s, "keydown">>},
          !.pending = SeqSet(leaf.pending, p, [leaf.pending[p] EXCEPT !.pc = "timer"])],
          [op |-> "editing"])

\* the timer of addEditModeListeners: 'click' added to document if the
\* state object still has its clickOutsideHandler
LeafClickTimer(p) ==
  /\ p \in DOMAIN leaf.pending
  /\ leaf.pending[p].kind = "edit" /\ leaf.pending[p].pc = "timer"
  /\ LET s == leaf.pending[p].state
     IN LeafStep([leaf EXCEPT
          !.listeners = IF leaf.states[s].clickOutsideHandler
                        THEN leaf.listeners \cup {<<s, "click">>}
                        ELSE leaf.listeners,
          !.pending = SeqSet(leaf.pending, p, [leaf.pending[p] EXCEPT !.pc = "done"])],
          [op |-> "timer"])

\* the bridge unmounts the widget
LeafUnmount ==
  /\ leaf.container /\ Len(leaf.states) < MaxLeafStates
  /\ LeafStep(unmountLeaf(leaf), [op |-> "unmount"])

\* update(newMeta): with another contentRef than meta's, unmount(),
\* Object.assign(meta, newMeta), mount(); else nothing
LeafUpdate(contentRef) ==
  /\ leaf.container
  /\ IF contentRef # leaf.meta
     THEN /\ Len(leaf.states) < MaxLeafStates /\ Len(leaf.created) < MaxLeafEmbeds
          /\ LeafStep(mountLeaf([unmountLeaf(leaf) EXCEPT !.meta = contentRef]),
                      [op |-> "update", changed |-> TRUE, before |-> LeafShown(leaf)])
     ELSE LeafStep(leaf, [op |-> "update", changed |-> FALSE,
                          before |-> LeafShown(leaf)])

InitLeaf ==
  /\ TrackerNew(ScannedTexts[1], ScannedTexts[2])
  /\ ModifyIdle
  /\ ViewIdle
  /\ RegistryNew
  /\ EmbedIdle
  /\ SessionIdle
  /\ call = NoCall

NextLeaf ==
  \/ LeafMount
  \/ \E p \in 1..MaxLeafEmbeds : LeafRenderResumes(p)
  \/ LeafUnlock
  \/ \E p \in 1..MaxLeafEmbeds : LeafEditResumes(p)
  \/ \E p \in 1..MaxLeafEmbeds : LeafClickTimer(p)
  \/ LeafUnmount
  \/ \E contentRef \in LeafRefs : LeafUpdate(contentRef)

SpecLeaf == InitLeaf /\ [][NextLeaf]_vars

\* ------------------------------------------------ documents and texts
\* the texts decoded: empty, malformed, and mappings with and without a
\* version key, tiles and settings
CodecTiles == {<<>>, <<"a">>, <<"a", "b">>, <<None, "a">>, <<"a", "a">>}
CodecRests == {Rest("r1", "absent", "absent"), Rest("r2", "s1", "true")}
CodecTexts ==
  {BlankText, BadText}
  \cup {YamlDoc(v, t, r) : v \in {0, 1, 2}, t \in CodecTiles, r \in CodecRests}

\* snapshotToDashFile(snapshot, existingSettings) on the snapshot of a
\* document's layout: version 2, the settings key always written (undefined
\* when there are no settings), every tile's locked and constraints keys
\* written (undefined when the tile has none)
snapshotToDashFile(d) ==
  [ok |-> TRUE, version |-> 2, tiles |-> d.tiles,
   rest |-> [d.rest EXCEPT !.settings = IF @ = "absent" THEN Undef ELSE @,
                           !.locked = IF @ = "absent" THEN Undef ELSE @]]

\* the document in hand: what parseDashFile returned, or what an operation
\* of the plugin made of it
HasDocument ==
  \/ call.fn = "parseDashFile" /\ call.result.ok
  \/ call.fn = "document"
Document == IF call.fn = "parseDashFile" THEN call.result ELSE call.doc
Produced(by, d) == [fn |-> "document", by |-> by, doc |-> d]

InitCodec ==
  /\ TrackerNew(ScannedTexts[1], ScannedTexts[2])
  /\ ModifyIdle
  /\ ViewIdle
  /\ RegistryNew
  /\ EmbedIdle
  /\ SessionIdle
  /\ call \in {[fn |-> "text", text |-> t] : t \in CodecTexts}

\* parseDashFile(content); ok is FALSE when it throws
ParseText ==
  /\ call.fn = "text"
  /\ call' = [fn |-> "parseDashFile", by |-> "parse", text |-> call.text,
              result |-> parseDashFile(call.text)]
  /\ UNCHANGED <<trackerVars, modifyVars, viewVars, registryVars, embedVars, sessionVars>>

\* updateDashboardReferences: the tiles naming oldFilePath rewritten
RewriteReference(oldFilePath, newFilePath) ==
  /\ HasDocument /\ Modified(Document.tiles, oldFilePath)
  /\ call' = Produced("rewrite",
       [Document EXCEPT !.tiles = RewriteTiles(@, oldFilePath, newFilePath)])
  /\ UNCHANGED <<trackerVars, modifyVars, viewVars, registryVars, embedVars, sessionVars>>

\* setTileContent: a tile's contentRef replaced
EditContent(i, contentRef) ==
  /\ HasDocument /\ i \in DOMAIN Document.tiles
  /\ Document.tiles[i] # contentRef
  /\ call' = Produced("edit", [Document EXCEPT !.tiles[i] = contentRef])
  /\ UNCHANGED <<trackerVars, modifyVars, viewVars, registryVars, embedVars, sessionVars>>

\* openDashboardSettings, onSave: the settings key set, or deleted when the
\* settings are empty
ChangeSettings(settings) ==
  /\ HasDocument /\ Document.rest.settings # settings
  /\ call' = Produced("settings", [Document EXCEPT !.rest.settings = settings])
  /\ UNCHANGED <<trackerVars, modifyVars, viewVars, registryVars, embedVars, sessionVars>>

\* handleDashboardChange: the document rebuilt from the model's snapshot
LayoutChange ==
  /\ HasDocument
  /\ call' = Produced("layout", snapshotToDashFile(Document))
  /\ call' # call
  /\ UNCHANGED <<trackerVars, modifyVars, viewVars, registryVars, embedVars, sessionVars>>

\* the document saved and loaded again:
\* parseDashFile(serializeDashFile(dashFile))
RoundTrip ==
  /\ HasDocument
  /\ call' = [fn |-> "roundTrip", by |-> call.by, doc |-> Document,
              result |-> parseDashFile(serializeDashFile(Document))]
  /\ UNCHANGED <<trackerVars, modifyVars, viewVars, registryVars, embedVars, sessionVars>>

NextCodec ==
  \/ ParseText
  \/ \E o \in ContentPaths : \E n \in ContentPaths \ {o} : RewriteReference(o, n)
  \/ \E i \in TileIdx, r \in {"b", "c"} : EditContent(i, r)
  \/ \E sv \in {"absent", "s1", "s2"} : ChangeSettings(sv)
  \/ LayoutChange
  \/ RoundTrip

SpecCodec == InitCodec /\ [][NextCodec]_vars

\* the settings resolver applied to every combination of layers
ResolveInputs ==
  {[fn |-> "resolveEffectiveTileSettings", g |-> g, d |-> d, c |-> c, done |-> FALSE] :
     g \in Vaults, d \in DocLayers, c \in TileLayers}
  \cup {[fn |-> "resolveEffectiveDashboardConfig", g |-> g, d |-> d, c |-> NoMeta,
         done |-> FALSE] :
     g \in Vaults, d \in DocLayers \cup CompositeLayers}

InitResolve ==
  /\ TrackerNew(ScannedTexts[1], ScannedTexts[2])
  /\ ModifyIdle
  /\ ViewIdle
  /\ call \in ResolveInputs
  /\ RegistryNew
  /\ EmbedIdle
  /\ SessionIdle

ResolveTile ==
  /\ call.fn = "resolveEffectiveTileSettings" /\ ~call.done
  /\ call' = [fn |-> call.fn, g |-> call.g, d |-> call.d, c |-> call.c, done |-> TRUE,
              result |-> resolveEffectiveTileSettings(call.g, call.d, call.c)]
  /\ UNCHANGED <<trackerVars, modifyVars, viewVars, registryVars, embedVars, sessionVars>>

ResolveConfig ==
  /\ call.fn = "resolveEffectiveDashboardConfig" /\ ~call.done
  /\ call' = [fn |-> call.fn, g |-> call.g, d |-> call.d, c |-> call.c, done |-> TRUE,
              result |-> resolveEffectiveDashboardConfig(call.g, call.d)]
  /\ UNCHANGED <<trackerVars, modifyVars, viewVars, registryVars, embedVars, sessionVars>>

NextResolve ==
  \/ ResolveTile
  \/ ResolveConfig

SpecResolve == InitResolve /\ [][NextResolve]_vars

\* widget types registered and unregistered by other plugins, and factories
\* looked up for tiles
NextRegistry ==
  \/ \E k \in ExternalTypes, f \in ExternalFactories : RegisterWidget(k, f)
  \/ \E k \in ExternalTypes : UnregisterWidget(k)
  \/ NewView
  \/ \E kind \in WidgetTypes \cup {Undef} : LookupFactory(kind)

SpecRegistry == Init /\ [][NextRegistry]_vars

\* ================================================================ properties
\* the index entries a dashboard path is a member of
Contribution(dashboardPath) == {k \in DOMAIN index : Has(index[k], dashboardPath)}

\* the paths of a set of dashboard files
PathsOf(gs) == {dfile[g].path : g \in gs}

\* the index had, when the event arrived, exactly the documents whose stored
\* cells referenced the path
IndexKnew(p) == p.preIdx = PathsOf(p.preDisk)

\* C1: within one open view at most one widget of a tile is mounted at any
\* instant, so a new widget of a tile is mounted only once the tile's
\* previous one has been unmounted.
SingleMountedPerTile ==
  \A t \in Tiles :
    Cardinality({w \in DOMAIN widgets :
                   widgets[w].tile = t /\ widgets[w].mounted}) <= 1

\* C2: when a path referenced by documents (and known so to the index) has
\* been renamed and the rename fully processed without interference or write
\* failure, every such document's stored content references the new path and
\* not the old one, and the index lists the document under the new path and
\* not under the old one.
RenamePropagates ==
  (last.op = "renameDone" /\ last.p.alone /\ ~last.p.failed /\ IndexKnew(last.p))
  => \A g \in last.p.preDisk :
       /\ last.p.newPath \in StoredRefs(g)
       /\ last.p.oldPath \notin StoredRefs(g)
       /\ dfile[g].path \in getDashboardsReferencing(index, last.p.newPath)
       /\ dfile[g].path \notin getDashboardsReferencing(index, last.p.oldPath)

\* C3: every modify event for a referenced path is answered, for each
\* registered modify callback, by exactly one call for that path within the
\* window that ends at the event: N events inside one window get one call,
\* events further apart get their own.
OneCallbackPerWindow ==
  \A i \in DOMAIN modEvents :
    modEvents[i].referenced =>
      \A cb \in modifyCallbacks :
        Cardinality({k \in DOMAIN modCalls :
                       /\ modCalls[k][1] = cb
                       /\ modCalls[k][2] = modEvents[i].path
                       /\ modCalls[k][4] > modEvents[i].time - DebounceWindow
                       /\ modCalls[k][4] <= modEvents[i].time}) = 1

\* C4: debouncing is per path and leading-edge: a modify event for a
\* referenced path fires at once unless an event for that same path fired
\* less than a window earlier, whatever events other paths have had.
PerLocatorLeadingEdge ==
  \A i \in DOMAIN modEvents :
    (/\ modEvents[i].referenced
     /\ ~\E j \in 1..(i - 1) :
           /\ modEvents[j].path = modEvents[i].path
           /\ modEvents[j].fired
           /\ modEvents[j].time > modEvents[i].time - DebounceWindow)
    => modEvents[i].fired

\* C5: once the tracker is stopped no step invokes a change callback,
\* whatever handlers were in progress, and no storage event arriving later
\* changes the index or rewrites a document.
QuietAfterStop ==
  [][tracker = "stopped" =>
       /\ last'.calls = <<>>
       /\ budget' # budget =>
            /\ index' = index
            /\ \A g \in DashFiles : dfile'[g].text = dfile[g].text]_vars

\* C6: no key of the index maps to an empty set, after any sequence and
\* interleaving of index operations and storage events.
NoEmptyEntries == \A k \in DOMAIN index : index[k] # <<>>

\* C6 witness: removeDashboard took the last document out of an entry, and
\* the entry is gone
EntryEmptiedAndDropped ==
  /\ last.op = "removeDone"
  /\ \E k \in last.p.preIdx : k \notin DOMAIN index

\* C7: when a referenced path (known so to the index) is deleted, each
\* registered change callback is called exactly once per referencing document
\* with (document, path, null), the path's entry is then empty, and no
\* document is rewritten.
DeleteNotifies ==
  (last.op = "deleteDone" /\ IndexKnew(last.p))
  => /\ \A cb \in changeCallbacks, g \in last.p.preDisk :
          Cardinality({k \in DOMAIN last.calls :
             last.calls[k] = <<cb, dfile[g].path, last.p.oldPath, None>>}) = 1
     /\ Len(last.calls) = Cardinality(changeCallbacks) * Cardinality(last.p.preDisk)
     /\ getDashboardsReferencing(index, last.p.oldPath) = {}
     /\ last.wrote = 0

\* C8: when indexDashboard(D) returns, D is a member of exactly the entries
\* of the paths D's current stored tiles reference.
IndexedContributionExact ==
  last.op = "indexDone"
  => Contribution(dfile[last.p.dfile].path) = StoredRefs(last.p.dfile)

IndexFollowsSave ==
  (/\ last.op \in {"save", "create"}
   /\ tracker = "started" /\ layoutReady
   /\ \A s \in Slots : procs[s].kind = "none")
  => Contribution(dfile[last.p.dfile].path) = StoredRefs(last.p.dfile)

\* an undisturbed rename of a file that is not a dashboard has been fully
\* processed, the index having known its referrers when the event arrived
ContentRenameDone ==
  /\ last.op = "renameDone" /\ last.p.kind = "rename"
  /\ ~IsDash(last.p.oldPath)
  /\ last.p.alone
  /\ IndexKnew(last.p)

\* the state a rename leaves when the write of some referrer failed: every
\* other referrer holds the new path and not the old one, the failed ones
\* still hold the old one, every callback was called for every referrer,
\* and the tracker is still listening
FailureContained ==
  (ContentRenameDone /\ last.p.failedDocs # {})
  => /\ \A g \in last.p.preDisk \ last.p.failedDocs :
          /\ last.p.newPath \in StoredRefs(g)
          /\ last.p.oldPath \notin StoredRefs(g)
     /\ \A g \in last.p.failedDocs : last.p.oldPath \in StoredRefs(g)
     /\ \A cb \in changeCallbacks, g \in last.p.preDisk :
          \E k \in DOMAIN last.p.total :
            last.p.total[k] = <<cb, dfile[g].path, last.p.oldPath, last.p.newPath>>
     /\ tracker = "started"

\* C11: a failed write of one referrer during a content rename stays inside
\* the tracker: the other referrers are rewritten and stay rewritten, the
\* callbacks are called for every referrer, and a delete event that follows
\* is handled as usual (its callbacks called for the entry, the entry
\* dropped).
WriteFailureContained ==
  [][/\ FailureContained'
     /\ (/\ last.op = "renameDone" /\ last.p.failedDocs # {}
         /\ last'.op = "deleteDone" /\ ~IsDash(last'.p.oldPath))
        => /\ Len(last'.calls) =
                Cardinality(changeCallbacks) * Cardinality(last'.p.preIdx)
           /\ last'.p.oldPath \notin DOMAIN index']_vars

\* C11 witness: a rename with a registered callback is over; the write of
\* one referrer failed and another referrer holds the new path
WriteFailedMidRename ==
  /\ ContentRenameDone
  /\ changeCallbacks # {}
  /\ last.p.failedDocs # {}
  /\ \E g \in last.p.preDisk \ last.p.failedDocs : last.p.newPath \in StoredRefs(g)

RewriteExact ==
  [][/\ \A g \in DashFiles :
          (last'.wrote = g /\ last'.p.alone)
          => LET before == parseDashFile(dfile[g].text)
                 after == parseDashFile(dfile'[g].text)
             IN /\ after.ok
                /\ after.version = before.version
                /\ after.rest = before.rest
                /\ DOMAIN after.tiles = DOMAIN before.tiles
                /\ \A i \in DOMAIN before.tiles :
                     after.tiles[i] = IF before.tiles[i] = last'.p.oldPath
                                      THEN last'.p.newPath ELSE before.tiles[i]
                /\ \A h \in DashFiles \ {g} : dfile'[h] = dfile[h]
     /\ (ContentRenameDone /\ ~last.p.failed)'
        => \A g \in last'.p.preDisk :
             /\ dfile'[g].path \in getDashboardsReferencing(index', last'.p.newPath)
             /\ dfile'[g].path \notin getDashboardsReferencing(index', last'.p.oldPath)]_vars

\* C13 witness: a rename is over and a document whose two tiles referenced
\* the old path holds the new path in both
SeveralCellsRewritten ==
  /\ ContentRenameDone /\ ~last.p.failed
  /\ \E g \in last.p.preDisk :
       parseDashFile(dfile[g].text).tiles = <<last.p.newPath, last.p.newPath>>

\* C14: a rename handler goes on to write a document only when a tile of
\* what it read references the old path and the text it is about to write
\* differs from the one read; a write that happens is that rewrite; and the
\* rewrite of any stored document, applied to its own result, finds nothing
\* to change, so a second application writes nothing.
WriteOnlyIfChanged ==
  [][/\ \A s \in Slots :
          (procs'[s].kind = "rename" /\ procs'[s].pc = "write" /\ procs[s].pc # "write")
          => /\ procs'[s].oldPath \in StoredRefs(procs'[s].dfile)
             /\ procs'[s].newText # dfile[procs'[s].dfile].text
     /\ last'.wrote # 0
        => \E s \in Slots :
             /\ procs[s].kind = "rename" /\ procs[s].pc = "write"
             /\ procs[s].dfile = last'.wrote
             /\ dfile'[last'.wrote].text = procs[s].newText
     /\ \A g \in DashFiles, o \in AllPaths, n \in AllPaths :
          n # o =>
          ~Modified(RewriteTiles(parseDashFile(dfile'[g].text).tiles, o, n), o)]_vars

DashboardRelabelled ==
  [][(last'.op = "renameDone" /\ IsDash(last'.p.oldPath))
     => /\ DOMAIN index' = DOMAIN index
        /\ \A k \in DOMAIN index :
             /\ Has(index[k], last'.p.oldPath) => Has(index'[k], last'.p.newPath)
             /\ ~Has(index'[k], last'.p.oldPath)
             /\ Elems(index'[k]) \ {last'.p.newPath}
                  = Elems(index[k]) \ {last'.p.oldPath}
        /\ {k \in DOMAIN index' : Has(index'[k], last'.p.newPath)}
             = {k \in DOMAIN index : Has(index[k], last'.p.oldPath)}
        /\ \A g \in DashFiles : dfile'[g].text = dfile[g].text
        /\ last'.wrote = 0]_vars

\* C16 witness: a dashboard that references two paths has been renamed and
\* is listed under both by its new path
RenamedDashboardIndexed ==
  /\ last.op = "renameDone" /\ IsDash(last.p.oldPath)
  /\ Cardinality(Contribution(last.p.newPath)) = 2
  /\ \E k \in DOMAIN index : Len(index[k]) = 2

ModifyCallsJustified ==
  /\ \A k \in DOMAIN modCalls :
       /\ modCalls[k][1] \in modifyCallbacks
       /\ ~IsDash(modCalls[k][2])
       /\ modCalls[k][2] \in DOMAIN index
       /\ modCalls[k][3] # <<>>
       /\ modCalls[k][3] = index[modCalls[k][2]]
       /\ \E i \in DOMAIN modEvents :
            /\ modEvents[i].path = modCalls[k][2]
            /\ modEvents[i].time = modCalls[k][4]
            /\ modEvents[i].fired
  /\ \A i \in DOMAIN modEvents :
       (IsDash(modEvents[i].path) \/ modEvents[i].path \notin DOMAIN index)
       => /\ ~modEvents[i].fired
          /\ \A k \in DOMAIN modCalls : modCalls[k][2] # modEvents[i].path

\* C18 witness: a dashboard that another dashboard references was modified
\* and nothing fired for it, a path without referrers likewise, and a
\* referenced file's event reached a registered callback
SilentForDashboards ==
  /\ \E i \in DOMAIN modEvents :
       /\ IsDash(modEvents[i].path)
       /\ modEvents[i].path \in DOMAIN index
       /\ ~modEvents[i].fired
  /\ \E i \in DOMAIN modEvents :
       modEvents[i].path \notin DOMAIN index /\ ~modEvents[i].fired
  /\ \E k \in DOMAIN modCalls : modCalls[k][3] = <<"D1">>

\* C19: the handling of a delete event for a referenced file completes
\* without an exception escaping, whatever its callbacks do, and its
\* remaining effects take place: every callback is called for every
\* referring document and the path's entry is dropped.
TotalUnderThrow ==
  (/\ last.op \in {"deleteDone", "deleteThrew"}
   /\ ~IsDash(last.p.oldPath)
   /\ IndexKnew(last.p))
  => /\ last.op # "deleteThrew"
     /\ Len(last.calls) =
          Cardinality(changeCallbacks) * Cardinality(last.p.preDisk)
     /\ last.p.oldPath \notin DOMAIN index

\* C20: while a view has no dashboard (it was closed, or never loaded) none
\* of its widgets is mounted and it holds no model subscription, whatever
\* initialisation was still waiting for the layout engine when it was closed.
QuietAfterTeardown ==
  ~dashboard
  => /\ \A w \in DOMAIN widgets : ~widgets[w].mounted
     /\ subscriptions = 0
     /\ ~modelUnsubscribe
\* the settings resolver has returned from the named function
Resolved(fn) == call.fn = fn /\ call.done

\* the key is set in the layer: the layer is an object and holds a value
\* for the key that is neither undefined nor null
IsSet(layer, key) == ~Nullish(layer.is) /\ ~Nullish(layer[key])

\* C26: for every vault settings g, dashboard settings d (possibly undefined),
\* tile meta c (possibly undefined) and every cascading key f, the effective
\* tile value is c[f] if it is set, otherwise d[f] if it is set, otherwise
\* g[f]; a set value that is falsy still overrides the lower layers.
CascadeLaw ==
  Resolved("resolveEffectiveTileSettings")
  => \A f \in TileCascade :
       call.result[f] =
         IF IsSet(call.c, f) THEN call.c[f]
         ELSE IF IsSet(call.d, DocKey(f)) THEN call.d[DocKey(f)]
         ELSE call.g[DocKey(f)]

\* a falsy tile value has overridden a truthy dashboard value, and a falsy
\* dashboard value a truthy vault value
FalsyOverrides ==
  /\ Resolved("resolveEffectiveTileSettings")
  /\ call.c.is = "object" /\ call.c.showHeader = "false" /\ call.c.linkBehavior = ""
  /\ call.c.seamlessNested = Undef
  /\ call.d.is = "object" /\ call.d.showHeaders = "true"
  /\ call.d.linkBehavior = "dashboard" /\ call.d.seamlessNested = "true"
  /\ call.d.scrollBehavior = Undef
  /\ call.g.seamlessNested = "false" /\ call.g.scrollBehavior = ""
  /\ call.result.showHeader = "false" /\ call.result.linkBehavior = ""
  /\ call.result.seamlessNested = "true" /\ call.result.scrollBehavior = ""

\* the vault's key for a sub-field of border or animation
VaultKey(f) ==
  CASE f = "width" -> "borderWidth" [] f = "style" -> "borderStyle"
    [] f = "color" -> "borderColor" [] f = "enabled" -> "animationEnabled"
    [] f = "duration" -> "animationDuration"

\* the value of sub-field f of the dashboard's composite key, if it is set
SubSet(d, key, f) == ~Nullish(d.is) /\ IsSet(d[key], f)

\* C27: the dashboard-effective configuration is the two-level cascade
\* d[f] ?? g[f], applied independently to each sub-field of border and
\* animation (a dashboard that overrides one sub-field inherits the siblings
\* from the vault), and the vault-only keys (minimum and maximum tile size)
\* always equal the vault's value.
DashboardCascade ==
  Resolved("resolveEffectiveDashboardConfig")
  => LET g == call.g
         d == call.d
         r == call.result
     IN /\ \A f \in (DocCascade \ {"interactionMode"}) \cup {"gutter"} :
             r[f] = IF IsSet(d, f) THEN d[f] ELSE g[f]
        /\ \A f \in BorderFields :
             r.border[f] = IF SubSet(d, "border", f) THEN d.border[f] ELSE g[VaultKey(f)]
        /\ \A f \in AnimationFields :
             r.animation[f] =
               IF SubSet(d, "animation", f) THEN d.animation[f] ELSE g[VaultKey(f)]
        /\ r.minTile = [width |-> g.minTileWidth, height |-> g.minTileHeight]
        /\ r.maxTileWidth = g.maxTileWidth
        /\ r.maxTileHeight = g.maxTileHeight

\* a dashboard overriding the border width alone, and the animation with a
\* falsy value, has the border style and colour of the vault
OneSubFieldOverridden ==
  /\ Resolved("resolveEffectiveDashboardConfig")
  /\ call.d.is = "object" /\ call.d.gutter = "8" /\ call.g.gutter = "vault"
  /\ call.d.border.is = "object" /\ call.d.border.width = "dashboard"
  /\ call.d.border.style = Undef /\ call.d.border.color = Undef
  /\ call.d.animation.is = "object" /\ call.d.animation.enabled = "false"
  /\ call.d.animation.duration = Undef
  /\ call.result.gutter = "8"
  /\ call.result.border =
       [width |-> "dashboard", style |-> call.g.borderStyle, color |-> call.g.borderColor]
  /\ call.result.animation = [enabled |-> "false", duration |-> call.g.animationDuration]
  /\ call.g.animationEnabled = "true"

\* C28: resolving with undefined dashboard and tile layers returns a structure
\* in which every cascading key is defined and equal to the vault's value,
\* for any fully defined vault settings; the tile-only keys take their unset
\* default (widgetType 'empty', the others undefined).
CascadeTotal ==
  /\ (Resolved("resolveEffectiveTileSettings")
      /\ Nullish(call.d.is) /\ Nullish(call.c.is))
     => /\ \A f \in TileCascade :
             call.result[f] = call.g[DocKey(f)] /\ ~Nullish(call.result[f])
        /\ call.result.widgetType = "empty"
        /\ call.result.contentRef = Undef
        /\ call.result.background = Undef
        /\ call.result.padding = Undef
  /\ (Resolved("resolveEffectiveDashboardConfig") /\ Nullish(call.d.is))
     => /\ \A f \in (DocCascade \ {"interactionMode"}) \cup {"gutter"} :
             call.result[f] = call.g[f] /\ ~Nullish(call.result[f])
        /\ \A f \in BorderFields :
             call.result.border[f] = call.g[VaultKey(f)]
             /\ ~Nullish(call.result.border[f])
        /\ \A f \in AnimationFields :
             call.result.animation[f] = call.g[VaultKey(f)]
             /\ ~Nullish(call.result.animation[f])
        /\ call.result.cssclass = Undef

\* a tile resolved on the vault's settings alone, falsy ones
ResolvedOnVaultAlone ==
  /\ Resolved("resolveEffectiveTileSettings")
  /\ Nullish(call.d.is) /\ Nullish(call.c.is)
  /\ call.g = Vault("falsy")
  /\ call.result.showHeader = "false"

\* C24: renderer selection is total: for any widget type, including an unknown
\* one, an absent one, and one whose factory was registered and later
\* unregistered, the registry lookup returns a factory, and for an unknown or
\* absent type it returns the empty-state widget's factory.
FactoryLookupTotal ==
  call.fn = "getWidgetFactory"
  => /\ call.result \in WidgetFactories
     /\ (call.kind = Undef \/ call.registry[call.kind] = Undef)
        => call.result = "createEmptyWidget"

\* C25: decoding never raises: for any input text, including empty text,
\* non-mapping text and syntactically malformed text, parseDashFile returns,
\* and for text that holds no mapping it returns the empty dashboard.
DecodeNeverRaises ==
  call.fn = "parseDashFile"
  => /\ call.result.ok
     /\ call.text.kind # "yaml" => call.result = createEmptyDashFile

\* what reading each key of the rest of a document gives: an absent key
\* reads as undefined
ReadKey(v) == IF v = "absent" THEN Undef ELSE v
Reads(rest) ==
  [other |-> rest.other, settings |-> ReadKey(rest.settings),
   locked |-> ReadKey(rest.locked)]

IndexIdempotent ==
  [][ /\ (last.op = "indexDone" /\ last'.op = "indexDone"
          /\ last'.p.dfile = last.p.dfile) => index' = index
      /\ \A g \in DOMAIN dfile :
            IndexOne(IndexOne(index, g), g) = IndexOne(index, g) ]_vars

\* the second of two indexDashboard calls in a row has completed on a
\* dashboard that references content
IndexedTwice ==
  /\ last.op = "indexDone" /\ last.p.again
  /\ \E k \in DOMAIN index : Has(index[k], dfile[last.p.dfile].path)

\* the widgets of a tile that are mounted
MountedOf(ws, t) == {w \in DOMAIN ws : ws[w].tile = t /\ ws[w].mounted}

\* the widget activeWidgets holds for the tile was created by this step, is
\* mounted, and is the tile's only mounted widget
OneNewWidget(t) ==
  /\ activeWidgets'[t] # 0
  /\ widgets'[activeWidgets'[t]].fresh
  /\ MountedOf(widgets', t) = {activeWidgets'[t]}

\* C21: when the dashboard settings modal saves, every tile of the dashFile
\* has its previous widget unmounted and a new widget mounted, the new widget
\* is the tile's only mounted one, and its effective settings are what
\* resolveEffectiveTileSettings gives for the new dashboard settings and the
\* tile's meta.
SettingsSaveRemountsAll ==
  [][ (viewLast'.op = "saveDashboardSettings" /\ dashboard) =>
        \A t \in dashFile'.tiles :
          /\ activeWidgets[t] # 0 => ~widgets'[activeWidgets[t]].mounted
          /\ OneNewWidget(t)
          /\ widgets'[activeWidgets'[t]].effectiveSettings
               = resolveEffectiveTileSettings(ViewVault, dashFile'.settings,
                                              OrEmpty(dashFile'.meta[t])) ]_vars

\* no widget of another tile was unmounted, mounted or created by the step
OthersUntouched(t) ==
  \A u \in Tiles \ {t} :
    /\ activeWidgets'[u] = activeWidgets[u]
    /\ \A w \in DOMAIN widgets' :
         widgets'[w].tile = u =>
           w \in DOMAIN widgets /\ widgets'[w].mounted = widgets[w].mounted

\* C22: when setTileContent has completed for a tile of the dashFile, the
\* stored document and this.dashFile both hold the new contentRef for the
\* tile, the tile has exactly one mounted widget, created by this call from
\* the new meta, the tile's other meta fields are the ones it had, and no
\* other tile's widget has been unmounted or mounted.
SetTileContentApplied ==
  [][ (viewLast'.op = "setTileContent" /\ viewLast'.tile # "-") =>
        LET t == viewLast'.tile
            c == viewLast'.contentRef
        IN /\ t \in stored'.tiles /\ stored'.meta[t].contentRef = c
           /\ t \in dashFile'.tiles /\ dashFile'.meta[t].contentRef = c
           /\ OneNewWidget(t)
           /\ widgets'[activeWidgets'[t]].meta = dashFile'.meta[t]
           /\ \A k \in MetaFields \ {"widgetType", "contentRef"} :
                 dashFile'.meta[t][k] = dashFile.meta[t][k]
           /\ OthersUntouched(t) ]_vars

\* the tiles of the open view's dashFile whose contentRef is the path
TilesReferencing(path) ==
  {t \in dashFile.tiles : RefOf(dashFile.meta[t]) = path}

\* no modify event for the path has fired less than a window ago
NotificationDue(path) ==
  ~\E j \in DOMAIN modEvents :
      /\ modEvents[j].path = path /\ modEvents[j].fired
      /\ modEvents[j].time > now - DebounceWindow

\* update() has been called once on every mounted widget of these tiles that
\* has an update(), and on no other widget
UpdateCalledOn(ts) ==
  \A w \in DOMAIN widgets :
    widgets'[w].updates =
      IF widgets[w].mounted /\ widgets[w].tile \in ts /\ HasUpdate(widgets[w])
      THEN widgets[w].updates + 1
      ELSE widgets[w].updates

\* C23: when the vault reports a file modified and no notification for that
\* file fell in the running debounce window, update() is called once on the
\* mounted widget of every tile of the open view whose contentRef is the
\* file, if the widget has an update(); no other widget is updated, and a
\* modify event inside the file's window updates none.
ModifyUpdatesReferencing ==
  [][ Len(modEvents') = Len(modEvents) + 1 =>
        LET path == modEvents'[Len(modEvents')].path
        IN UpdateCalledOn(IF dashboard /\ NotificationDue(path)
                          THEN TilesReferencing(path) ELSE {}) ]_vars

\* no handler of the tracker is suspended
HandlersFinished == \A s \in Slots : procs[s].kind = "none"

\* the index lists a dashboard under a path exactly when the dashboard's
\* stored content references the path
IndexAgrees ==
  \A g \in DashFiles, k \in ContentPaths \cup RacePaths :
     dfile[g].path \in getDashboardsReferencing(index, k) <=> k \in StoredRefs(g)

\* the content file that has been renamed, and the path it had at first
RenamedFile == CHOOSE f \in ContentFiles : cfile[f].path \notin {"a", "b"}
FirstPath(f) == IF f = 1 THEN "a" ELSE "b"

\* C33: when both content files, referenced by the first dashboard, have
\* been renamed and every rename handler has finished, however their reads
\* and writes interleaved, the dashboard's stored content references the two
\* new paths and neither old one, and the index agrees with the stored
\* documents.
ConcurrentRenamesBothApplied ==
  (HandlersFinished /\ Scanned /\ cfile[1].path # "a" /\ cfile[2].path # "b")
  => /\ StoredRefs(1) = {cfile[1].path, cfile[2].path}
     /\ IndexAgrees

\* C34: when one content file has been renamed twice, the second rename
\* arriving at any point of the first one's handling, and both handlers
\* have finished, every dashboard that referenced the first path references
\* the last path in its stored content, and is indexed under the last path
\* and under neither of the two earlier ones.
ChainedRenameFollowed ==
  (/\ HandlersFinished /\ Scanned /\ budget = 0
   /\ \E f \in ContentFiles : cfile[f].path = FirstPath(f))
  => LET final == cfile[RenamedFile].path
         earlier == (RacePaths \cup {FirstPath(RenamedFile)}) \ {final}
     IN \A g \in DashFiles :
           FirstPath(RenamedFile) \in TileRefs(ScannedTexts[g].tiles) =>
             /\ final \in StoredRefs(g)
             /\ StoredRefs(g) \cap earlier = {}
             /\ dfile[g].path \in getDashboardsReferencing(index, final)
             /\ \A k \in earlier :
                   dfile[g].path \notin getDashboardsReferencing(index, k)

\* C35: when one content file has been renamed, at any point of the first
\* scan or after it, and the scan and the rename handler have finished,
\* every dashboard that referenced the old path references the new one in
\* its stored content and not the old one, and the index is the reverse map
\* of the stored documents' references.
RenameDuringRescanKept ==
  (HandlersFinished /\ Scanned /\ budget = MaxEvents - 1)
  => /\ \A g \in DashFiles :
          FirstPath(RenamedFile) \in TileRefs(ScannedTexts[g].tiles) =>
            /\ cfile[RenamedFile].path \in StoredRefs(g)
            /\ FirstPath(RenamedFile) \notin StoredRefs(g)
     /\ IndexAgrees

\* C32: after a layout change (the document rebuilt from the layout engine's
\* snapshot) every tile whose id the previous document had with a meta has
\* exactly that meta, every tile with no previous meta has
\* {widgetType: 'empty'}, the settings are the previous document's, and the
\* snapshot's and the document's tile arrays are as they were before the call.
LayoutRebuilt == call.fn \in {"handleDashboardChange", "mergeTileMetadata"}
PreviousMeta(id) ==
  LET k == FindTile(call.dashFile.tiles, id)
  IN IF k = 0 THEN NoMeta ELSE call.dashFile.tiles[k].meta
LayoutChangeKeepsMeta ==
  LayoutRebuilt =>
    /\ \A i \in DOMAIN call.result.tiles :
         LET tile == call.result.tiles[i]
         IN IF Nullish(PreviousMeta(tile.id).is)
            THEN tile.meta = EmptyMeta
            ELSE tile.meta = PreviousMeta(tile.id)
    /\ call.result.settings = call.dashFile.settings
    /\ call.snapshotAfter = call.snapshot
    /\ call.dashFileAfter = call.dashFile

\* C31: no dashboard embed is rendered at a nesting depth of MAX_DEPTH (3)
\* or more: every component that is that deep shows the depth-limit error
\* and loads nothing, whatever the order in which the loading components
\* resume.
RendersTiles(c) == embeds[c].pc \in {"read", "mount", "done"}
NestingLimited ==
  \A c \in DOMAIN embeds : embeds[c].level >= MAX_DEPTH => ~RendersTiles(c)

\* C36: a reload of the open document caused by a change made to its file
\* from outside (setViewData(data, false) with a document other than the
\* one the file held, the view's own write not awaiting its reload) leaves
\* every cell the layout engine holds with a mounted renderer showing the
\* loaded document's meta for the cell: it is never skipped.
ShowsLoaded ==
  \A t \in dashFile.tiles :
    bridges[t] # 0 =>
      /\ activeWidgets[t] # 0
      /\ widgets[activeWidgets[t]].mounted
      /\ widgets[activeWidgets[t]].meta = OrEmpty(dashFile.meta[t])
ExternallyReloaded ==
  /\ dashboard /\ ~OwnWritePending
  /\ stored' # stored
  /\ viewLast'.op = "setViewData" /\ ~viewLast'.ok
ExternalReloadRefreshes == [][ExternallyReloaded => ShowsLoaded']_vars

\* C37: once every initializeDashboard of the view has resumed from its
\* await of mount() and a dashboard is up, also after initialisations that
\* overlapped, there is exactly one model subscription, the one
\* modelUnsubscribe ends, and every mounted renderer is the one the live
\* layout engine's bridge for its cell holds; so one model change makes one
\* document update.
InitialisationsOver == dashboard /\ mounting = 0
OverlapEndsWithOneSubscription ==
  InitialisationsOver =>
    /\ subscriptions = 1 /\ modelUnsubscribe
    /\ \A w \in DOMAIN widgets :
         widgets[w].mounted => bridges[widgets[w].tile] = w

\* C40: after discardAndExit the view is in view mode and its document is
\* the one it held when the edit session began: the document in memory, the
\* content every cell's renderer shows and the document the file holds all
\* read as that document did (same tiles, content references and settings).
SameDocument(a, b) == ToText(a) = ToText(b)
ShowsDocument(d) ==
  \A t \in d.tiles :
    /\ activeWidgets[t] # 0
    /\ widgets[activeWidgets[t]].mounted
    /\ RefOf(widgets[activeWidgets[t]].meta) = RefOf(d.meta[t])
DiscardReverts ==
  viewLast.op = "discardAndExit" =>
    /\ mode = "view"
    /\ SameDocument(DocOf(dashFile), sessionStart)
    /\ ShowsDocument(sessionStart)
    /\ SameDocument(stored, sessionStart)

\* C38: while the embedded renderer is unmounted after a mount (unmount()
\* has returned), no embed the instance created is loaded and no listener
\* the instance added is on the document; work the instance left suspended
\* (an embed loading its file, an editor being created) changes neither.
LeafUnmounted == ~leaf.container /\ leaf.editModeState > 1
UnmountedHoldsNothing ==
  LeafUnmounted =>
    /\ \A e \in DOMAIN leaf.created : ~leaf.created[e].loaded
    /\ leaf.listeners = {}

\* C39: after update(newMeta) on a mounted embedded renderer with another
\* content reference than its meta had, the renderer is mounted, with one
\* container and one current embed, and both its file and its embed are of
\* newMeta.contentRef; after update with the same content reference the
\* renderer's container, file and embed are the ones it had.
UpdateShowsNewContent ==
  leaf.last.op = "update" =>
    IF leaf.last.changed
    THEN /\ leaf.container
         /\ leaf.currentFile = leaf.meta
         /\ leaf.currentEmbed # 0
         /\ leaf.created[leaf.currentEmbed].file = leaf.meta
    ELSE LeafShown(leaf) = leaf.last.before

====
